---- MODULE Spec2Model ----
(***************************************************************************)
(* State-machine model of syncHubSpotPropertiesFromBigQuery                *)
(* (src/hubspot_update.js): the checkpointed, paginated, concurrent sync   *)
(* of warehouse rows into CRM property updates.                            *)
(*                                                                         *)
(* JavaScript runs the function on one event loop: the code between two    *)
(* awaits is atomic.  Every await (createQueryJob, getQueryResults, one    *)
(* record update) and every synchronous file write is a step of the model, *)
(* so that a state of the model is a point where the process can be        *)
(* interrupted.                                                            *)
(***************************************************************************)
EXTENDS Integers, Sequences, FiniteSets, TLC

VARIABLES
    cfg,             \* the argument object of syncHubSpotPropertiesFromBigQuery
    table,           \* the rows the query job yields, in the engine's order
    checkpointFile,  \* the file at checkpointPath: [kind, ids]
    csvFile,         \* the file at outputCsvPath: [exists, appends, lines]
    run,             \* 1 for the first run, 2 for the first rerun, ...
    pc,              \* position of the run in the function body
    thrown,          \* what left the run as a thrown error ("none" if nothing)
    processed,       \* const processed = loadCheckpoint(checkpointPath)
    startCheckpoint, \* the identifiers the checkpoint file held when the run started
    pageToken,       \* let pageToken (0 is null)
    rows,            \* the rows of the page being processed
    rowIdx,          \* position of `for (const r of rows)`
    batchUpdates,    \* const batchUpdates = []
    i,               \* the wave loop's index into batchUpdates
    wave,            \* const wave = batchUpdates.slice(i, i + updateBatchSize)
    idx,             \* runWithConcurrency: let idx
    call,            \* per wave item, the state of its remote update call
    waveCsvRows,     \* const waveCsvRows = []
    totalFetched,
    totalAttempted,
    totalUpdated,
    totalSkipped,
    errors,          \* const errors = []
    updateCalls,     \* remote update calls of this run, per identifier
    priorCalls,      \* remote update calls of the earlier runs, per identifier
    pagesFetched,    \* pages that getQueryResults has returned to this run
    applied,         \* identifiers whose remote update returned in this run
    cmd,             \* hubspot-import-cli.js: const cmd = process.argv[2]
    APPLY,           \* const APPLY = process.argv.includes("--apply")
    env,             \* which of the variables of .env are set
    cliPc,           \* position of the CLI process
    plan,            \* the actions main has still to run, the current one first
    prepared,        \* the current action's groups, inputs or ids
    queue,           \* its merge pairs or batches not yet sent
    inflight,        \* the HubSpot write call that is awaited: <<>> or <<[kind, body]>>
    sent,            \* HubSpot write calls made so far, per kind
    failed,          \* HubSpot write calls that threw, per kind
    due              \* pairs or batches each action had to send, per kind

\* the import CLI is another process: no step of a sync run changes it
cli      == <<cmd, APPLY, env, cliPc, plan, prepared, queue, inflight, sent, failed, due>>
settings == <<cfg, table, cli>>
files    == <<checkpointFile, csvFile>>
control  == <<run, pc, thrown, pageToken, rows, rowIdx, i, wave, idx, call>>
memory   == <<processed, startCheckpoint, batchUpdates, waveCsvRows, errors>>
totals   == <<totalFetched, totalAttempted, totalUpdated, totalSkipped>>
remote   == <<updateCalls, priorCalls, applied, pagesFetched>>
vars     == <<settings, files, control, memory, totals, remote>>

----------------------------------------------------------------------------
(* Bounds of the model *)

\* most rows a query result holds
MaxRows == 2
\* largest updateBatchSize setting
MaxBatchSize == 2
\* largest updateConcurrency setting
MaxConcurrency == 2
\* runs in a row on the same checkpoint file
MaxRuns == 2

----------------------------------------------------------------------------
(* JavaScript values of a warehouse row: null, undefined, strings (as        *)
(* sequences of characters) and numbers.                                     *)

Null     == [t |-> "null", s |-> <<>>, n |-> 0]
Undef    == [t |-> "undefined", s |-> <<>>, n |-> 0]
Str(s)   == [t |-> "string", s |-> s, n |-> 0]
Num(n)   == [t |-> "number", s |-> <<>>, n |-> n]

WhiteSpace == {" "}
Digits == <<"0", "1", "2", "3", "4", "5", "6", "7", "8", "9">>

RECURSIVE NumString(_)
NumString(n) ==
    IF n < 10 THEN <<Digits[n + 1]>>
    ELSE NumString(n \div 10) \o <<Digits[(n % 10) + 1]>>

\* String(v)
JsString(v) ==
    CASE v.t = "null"      -> <<"n", "u", "l", "l">>
      [] v.t = "undefined" -> <<"u", "n", "d", "e", "f", "i", "n", "e", "d">>
      [] v.t = "number"    -> NumString(v.n)
      [] OTHER             -> v.s

RECURSIVE TrimStart(_)
TrimStart(s) ==
    IF s # <<>> /\ Head(s) \in WhiteSpace THEN TrimStart(Tail(s)) ELSE s

RECURSIVE TrimEnd(_)
TrimEnd(s) ==
    IF s # <<>> /\ s[Len(s)] \in WhiteSpace
    THEN TrimEnd(SubSeq(s, 1, Len(s) - 1)) ELSE s

\* s.trim()
Trim(s) == TrimEnd(TrimStart(s))

Min(a, b) == IF a < b THEN a ELSE b

\* the pageSize setting (maxResults of a page fetch): a page may hold the
\* whole result
PageSize == MaxRows

----------------------------------------------------------------------------
(* Settings and inputs *)

\* matching_id: the column that holds the record identifier
matching_id == "id"

\* property: HubSpot property -> BigQuery column (the multi-map form)
PropertyMap == [country |-> "country_normalized", state |-> "state_normalized"]

\* the kinds of row a query result is built from
RowKinds == {
    [id |-> Num(7),          country_normalized |-> Str(<<"U", "S">>), state_normalized |-> Null],
    [id |-> Str(<<" ", "7">>), country_normalized |-> Str(<<" ">>),    state_normalized |-> Undef],
    [id |-> Str(<<"8">>),    country_normalized |-> Str(<<"C", "A">>), state_normalized |-> Str(<<"B", "C">>)],
    [id |-> Str(<<"8">>),    country_normalized |-> Null,              state_normalized |-> Undef],
    [id |-> Str(<<" ">>),    country_normalized |-> Str(<<"U", "S">>), state_normalized |-> Str(<<"N", "Y">>)]
  }

\* rows without an identifier: the column is null, or absent from the row
IdlessRows == {
    [id |-> Null,  country_normalized |-> Str(<<"U", "S">>), state_normalized |-> Str(<<"N", "Y">>)],
    [id |-> Undef, country_normalized |-> Str(<<"C", "A">>), state_normalized |-> Null]
  }

\* the identifiers the rows carry
Ids == {<<"7">>, <<"8">>}

RECURSIVE SeqsUpTo(_, _)
SeqsUpTo(S, n) ==
    IF n = 0 THEN {<<>>}
    ELSE LET shorter == SeqsUpTo(S, n - 1)
         IN  shorter \cup {Append(q, x) : q \in {p \in shorter : Len(p) = n - 1}, x \in S}

\* property as a string, with column_name: the single-property form
SingleProperty == "country"
SingleColumn == "country_normalized"

\* The argument objects of a caller whose required arguments are all there
\* (the multi-map call of normalized_contacts.js); "" is a missing string,
\* FALSE a missing client, and `property` is held by its typeof.
Settings ==
    [ apply                : BOOLEAN,
      updateBatchSize      : 1..MaxBatchSize,
      updateConcurrency    : 0..MaxConcurrency,
      dropBlanks           : BOOLEAN,
      skipAlreadyProcessed : BOOLEAN,
      outputCsvPath        : BOOLEAN,    \* TRUE: a path is given
      object               : {"contacts"},
      sql                  : {"SELECT"},
      property             : {"object"},
      column_name          : {""},
      matching_id          : {matching_id},
      matchKeyType         : {"id"},
      hubspotClient        : {TRUE},
      bigqueryClient       : {TRUE} ]

\* The argument objects of any caller, some of them with arguments missing;
\* the settings that are not validated keep the function's defaults, with
\* the largest batch size and concurrency and an audit path.
ConfigSettings ==
    [ apply                : BOOLEAN,
      updateBatchSize      : {MaxBatchSize},
      updateConcurrency    : {MaxConcurrency},
      dropBlanks           : {TRUE},
      skipAlreadyProcessed : {TRUE},
      outputCsvPath        : {TRUE},
      object               : {"contacts", ""},
      sql                  : {"SELECT", ""},
      property             : {"undefined", "string", "object"},
      column_name          : {SingleColumn, ""},
      matching_id          : {matching_id, ""},
      matchKeyType         : {"id", "email"},
      hubspotClient        : BOOLEAN,
      bigqueryClient       : BOOLEAN ]

\* faulty variant: nothing is validated
ConfigErrorNone(c) == "none"

\* Lines 114-125: the first check that fails, "none" if none does.
ConfigError(c) ==
    IF c.object = "" THEN "Missing required arg: object"
    ELSE IF c.sql = "" THEN "Missing required arg: sql"
    ELSE IF c.property = "undefined" THEN "Missing required arg: property"
    ELSE IF c.matching_id = "" THEN "Missing required arg: matching_id"
    ELSE IF ~c.hubspotClient THEN "Missing required arg: hubspotClient"
    ELSE IF ~c.bigqueryClient THEN "Missing required arg: bigqueryClient"
    ELSE IF c.matchKeyType # "id" THEN "This version expects matchKeyType='id'"
    ELSE IF c.property # "object" /\ c.column_name = ""
         THEN "Missing required arg: column_name"
    ELSE "none"

\* const multiMap = typeof property === "object" && property !== null;
multiMap == cfg.property = "object"

\* the remote update rejects with one kind of error
Errors == {[message |-> "update failed"]}

\* e?.response?.body ? JSON.stringify(e.response.body) : (e?.message || String(e))
ErrText(e) == e.message

CsvHeaders == <<"matchVal", "status", "properties_json", "error">>

NoCalls == [id \in Ids |-> 0]

----------------------------------------------------------------------------
(* Helpers of hubspot_update.js *)

\* faulty variant: the header line goes first in every append
WriteCsvAppendWithHeader(file, rws) ==
    [ exists |-> TRUE,
      appends |-> file.appends + 1,
      lines  |-> file.lines
                 \o <<[header |-> TRUE, row |-> <<>>]>>
                 \o [k \in 1..Len(rws) |-> [header |-> FALSE, row |-> <<rws[k]>>]] ]

\* writeCsvAppend(filePath, rows, headers): the header line goes first when the
\* file does not exist yet; one line per row; everything is appended in one
\* appendFileSync.  `appends` counts the calls.
WriteCsvAppend(file, rws) ==
    [ exists |-> TRUE,
      appends |-> file.appends + 1,
      lines  |-> file.lines
                 \o (IF file.exists THEN <<>> ELSE <<[header |-> TRUE, row |-> <<>>]>>)
                 \o [k \in 1..Len(rws) |-> [header |-> FALSE, row |-> <<rws[k]>>]] ]

\* faulty variant: the file is never read
LoadCheckpointEmpty(file) == {}

\* faulty variant: whatever identifiers can be found in the file are taken,
\* array or not
LoadCheckpointLenient(file) == file.ids

\* loadCheckpoint(checkpointPath): the identifiers of a JSON array, the empty
\* set for a missing or unparsable file and for JSON that is not an array.
LoadCheckpoint(file) ==
    IF file.kind = "array" THEN file.ids ELSE {}

\* faulty variant: the file is left as it is
SaveCheckpointKeepsFile(file, set) == file

\* faulty variant: only the identifiers of the current wave are written
SaveCheckpointWaveOnly(file, set) ==
    [kind |-> "array", ids |-> {wave[k].id : k \in 1..Len(wave)}]

\* saveCheckpoint(checkpointPath, set): overwrites the file with the whole set.
SaveCheckpoint(file, set) ==
    [kind |-> "array", ids |-> set]

\* faulty variant: one worker per item, whatever the concurrency
WorkersStartedPerItem(items, concurrency) == Len(items)

\* runWithConcurrency: Array.from({length: concurrency}) starts that many
\* workers; each takes `idx++` at once and stops if it is past the items.
WorkersStarted(items, concurrency) == Min(concurrency, Len(items))

----------------------------------------------------------------------------
(* Row mapping *)

\* faulty variant: the identifier is not trimmed
RowIdUntrimmed(r) ==
    LET idRaw == r[matching_id]
    IN  IF idRaw.t \in {"undefined", "null"} THEN <<>> ELSE JsString(idRaw)

\* const idRaw = r?.[matching_id];
\* const id = idRaw === undefined || idRaw === null ? "" : String(idRaw).trim();
RowId(r) ==
    LET idRaw == r[matching_id]
    IN  IF idRaw.t \in {"undefined", "null"} THEN <<>> ELSE Trim(JsString(idRaw))

\* faulty variant: the text is not trimmed before it is compared with ""
KeptUntrimmed(v, dropBlanks) ==
    /\ v.t \notin {"undefined", "null"}
    /\ dropBlanks => JsString(v) # <<>>

\* the filter of clean(): which values stay
Kept(v, dropBlanks) ==
    /\ v.t \notin {"undefined", "null"}
    /\ dropBlanks => Trim(JsString(v)) # <<>>

\* faulty variant: nothing is filtered out
CleanKeepsAll(obj, dropBlanks) == obj

\* clean(obj)
Clean(obj, dropBlanks) ==
    LET keys == {p \in DOMAIN obj : Kept(obj[p], dropBlanks)}
    IN  [p \in keys |-> obj[p]]

\* for (const [hsProp, bqCol] of Object.entries(property)) mapped[hsProp] = r?.[bqCol];
\* and, in the single-property form, { [property]: r?.[column_name] }
Mapped(r) ==
    IF multiMap THEN [hsProp \in DOMAIN PropertyMap |-> r[PropertyMap[hsProp]]]
    ELSE [hsProp \in {SingleProperty} |-> r[cfg.column_name]]

\* props = clean(mapped)
RowProps(r) == Clean(Mapped(r), cfg.dropBlanks)

\* Object.keys(props).length === 0
NoProps(props) == DOMAIN props = {}

\* faulty variant: the check against the processed set is left out
AlreadyProcessedNever(id) == FALSE

\* skipAlreadyProcessed && processed.has(id)
AlreadyProcessed(id) == cfg.skipAlreadyProcessed /\ id \in processed

\* faulty variant: slice(i) without its end: the rest of the page is one wave
SliceToEnd(items, from, size) == SubSeq(items, from + 1, Len(items))

\* batchUpdates.slice(i, i + updateBatchSize), i counted from 0
Slice(items, from, size) ==
    SubSeq(items, from + 1, Min(from + size, Len(items)))

\* faulty variant: every record says UPDATED
CsvRowAlwaysUpdated(w, status, error) ==
    [matchVal |-> w.id, status |-> "UPDATED", properties_json |-> w.properties, error |-> error]

\* the audit record of one item
CsvRow(w, status, error) ==
    [matchVal |-> w.id, status |-> status, properties_json |-> w.properties, error |-> error]

WaveIds(items) == {items[k].id : k \in 1..Len(items)}

InFlight == {k \in 1..Len(call) : call[k] = "inflight"}

----------------------------------------------------------------------------
(* The state after construction: a caller's settings, a query result, the    *)
(* checkpoint file an earlier use left behind, no audit file.                *)

InitialCheckpoints ==
    { [kind |-> "absent", ids |-> {}],
      [kind |-> "malformed", ids |-> {}],
      [kind |-> "array", ids |-> {<<"7">>}],
      [kind |-> "array", ids |-> Ids] }

\* the kinds of write call the import CLI makes to HubSpot: the merge
\* request, batch createOrUpdate and batch archive
WriteKinds == {"merge", "update", "archive"}

NoWrites == [k \in WriteKinds |-> 0]

\* the import CLI is not running
CliOff ==
    /\ cmd = ""
    /\ APPLY = FALSE
    /\ env = [token |-> FALSE, project |-> FALSE,
              updateTable |-> FALSE, deleteTable |-> FALSE, mergeTable |-> FALSE]
    /\ cliPc = "OFF"
    /\ plan = <<>>
    /\ prepared = <<>>
    /\ queue = <<>>
    /\ inflight = <<>>
    /\ sent = NoWrites
    /\ failed = NoWrites
    /\ due = NoWrites

\* the state before a first call, for given argument objects, checkpoint
\* files and kinds of row
Start(argSets, checkpoints, rowKinds) ==
    /\ cfg \in argSets
    /\ table \in SeqsUpTo(rowKinds, MaxRows)
    /\ checkpointFile \in checkpoints
    /\ csvFile = [exists |-> FALSE, appends |-> 0, lines |-> <<>>]
    /\ run = 1
    /\ pc = "INIT"
    /\ thrown = "none"
    /\ processed = {}
    /\ startCheckpoint = {}
    /\ pageToken = 0
    /\ rows = <<>>
    /\ rowIdx = 1
    /\ batchUpdates = <<>>
    /\ i = 0
    /\ wave = <<>>
    /\ idx = 0
    /\ call = <<>>
    /\ waveCsvRows = <<>>
    /\ totalFetched = 0
    /\ totalAttempted = 0
    /\ totalUpdated = 0
    /\ totalSkipped = 0
    /\ errors = <<>>
    /\ updateCalls = NoCalls
    /\ priorCalls = NoCalls
    /\ pagesFetched = 0
    /\ applied = {}
    /\ CliOff

Init == Start(Settings, InitialCheckpoints, RowKinds)

----------------------------------------------------------------------------
(* syncHubSpotPropertiesFromBigQuery, step by step *)

\* Lines 114-152: the arguments are valid, the checkpoint is loaded, the query
\* job is created and the counters start at zero.
StartRun ==
    /\ pc = "INIT"
    /\ ConfigError(cfg) = "none"
    /\ processed' = LoadCheckpoint(checkpointFile)
    /\ startCheckpoint' = checkpointFile.ids
    /\ pageToken' = 0
    /\ pc' = "PAGING"
    /\ UNCHANGED <<settings, files, totals, remote>>
    /\ UNCHANGED <<run, thrown, rows, rowIdx, i, wave, idx, call>>
    /\ UNCHANGED <<batchUpdates, waveCsvRows, errors>>

\* Lines 114-125: a required argument is missing; the run throws at once.
ConfigRejected ==
    /\ pc = "INIT"
    /\ ConfigError(cfg) # "none"
    /\ pc' = "THROWN"
    /\ thrown' = "config"
    /\ UNCHANGED <<settings, files, totals, remote, memory>>
    /\ UNCHANGED <<run, pageToken, rows, rowIdx, i, wave, idx, call>>

\* Line 145: bigqueryClient.createQueryJob rejects; nothing catches it.
QueryRejected ==
    /\ pc = "INIT"
    /\ ConfigError(cfg) = "none"
    /\ pc' = "THROWN"
    /\ thrown' = "query"
    /\ processed' = LoadCheckpoint(checkpointFile)
    /\ startCheckpoint' = checkpointFile.ids
    /\ UNCHANGED <<settings, files, totals, remote>>
    /\ UNCHANGED <<run, pageToken, rows, rowIdx, i, wave, idx, call>>
    /\ UNCHANGED <<batchUpdates, waveCsvRows, errors>>

\* Lines 160-164 with fetchBigQueryPage: the engine returns the next rows of
\* the result, at most pageSize of them and at least one while rows are left,
\* and a token; the token is non-null while rows are left, and the engine may
\* also give one with the last rows or with an empty page.  A token is the
\* number of rows served so far, plus one.
FetchPage ==
    /\ pc = "PAGING"
    /\ LET served == IF pageToken = 0 THEN 0 ELSE pageToken - 1
           left   == Len(table) - served
       IN  \E n \in (IF left = 0 THEN {0} ELSE 1..Min(PageSize, left)) :
           \E more \in BOOLEAN :
             /\ (served + n < Len(table)) => more
             /\ rows' = SubSeq(table, served + 1, served + n)
             /\ pageToken' = IF more THEN served + n + 1 ELSE 0
             /\ totalFetched' = totalFetched + n
             /\ pc' = IF n = 0 THEN "DONE" ELSE "MAP"
    /\ pagesFetched' = pagesFetched + 1
    /\ rowIdx' = 1
    /\ batchUpdates' = <<>>
    /\ UNCHANGED <<settings, files, updateCalls, priorCalls, applied>>
    /\ UNCHANGED <<run, thrown, i, wave, idx, call>>
    /\ UNCHANGED <<processed, startCheckpoint, waveCsvRows, errors>>
    /\ UNCHANGED <<totalAttempted, totalUpdated, totalSkipped>>

\* faulty variant: the loop catches the rejected fetch and the run returns
\* its summary
FetchRejectedCaught ==
    /\ pc = "PAGING"
    /\ pc' = "DONE"
    /\ thrown' = "fetch"
    /\ UNCHANGED <<settings, files, totals, remote, memory>>
    /\ UNCHANGED <<run, pageToken, rows, rowIdx, i, wave, idx, call>>

\* Line 160: job.getQueryResults rejects; nothing catches it.
FetchRejected ==
    /\ pc = "PAGING"
    /\ pc' = "THROWN"
    /\ thrown' = "fetch"
    /\ UNCHANGED <<settings, files, totals, remote, memory>>
    /\ UNCHANGED <<run, pageToken, rows, rowIdx, i, wave, idx, call>>

\* faulty variant: a row discarded as blank-only is not counted as skipped
MapRowDiscardUncounted ==
    /\ pc = "MAP"
    /\ LET r     == rows[rowIdx]
           id    == RowId(r)
           props == RowProps(r)
       IN  CASE id = <<>> ->
                  UNCHANGED <<totalSkipped, processed, batchUpdates>>
             [] id # <<>> /\ AlreadyProcessed(id) ->
                  /\ totalSkipped' = totalSkipped + 1
                  /\ UNCHANGED <<processed, batchUpdates>>
             [] id # <<>> /\ ~AlreadyProcessed(id) /\ NoProps(props) ->
                  /\ processed' = processed \cup {id}
                  /\ UNCHANGED <<totalSkipped, batchUpdates>>
             [] OTHER ->
                  /\ batchUpdates' = Append(batchUpdates, [id |-> id, properties |-> props])
                  /\ UNCHANGED <<totalSkipped, processed>>
    /\ rowIdx' = rowIdx + 1
    /\ pc' = IF rowIdx = Len(rows) THEN "WAVE" ELSE "MAP"
    /\ i' = 0
    /\ UNCHANGED <<settings, files, remote>>
    /\ UNCHANGED <<run, thrown, pageToken, rows, wave, idx, call>>
    /\ UNCHANGED <<startCheckpoint, waveCsvRows, errors>>
    /\ UNCHANGED <<totalFetched, totalAttempted, totalUpdated>>

\* Lines 169-196: one turn of `for (const r of rows)`.
MapRow ==
    /\ pc = "MAP"
    /\ LET r     == rows[rowIdx]
           id    == RowId(r)
           props == RowProps(r)
       IN  CASE id = <<>> ->
                  UNCHANGED <<totalSkipped, processed, batchUpdates>>
             [] id # <<>> /\ AlreadyProcessed(id) ->
                  /\ totalSkipped' = totalSkipped + 1
                  /\ UNCHANGED <<processed, batchUpdates>>
             [] id # <<>> /\ ~AlreadyProcessed(id) /\ NoProps(props) ->
                  /\ totalSkipped' = totalSkipped + 1
                  /\ processed' = processed \cup {id}
                  /\ UNCHANGED batchUpdates
             [] OTHER ->
                  /\ batchUpdates' = Append(batchUpdates, [id |-> id, properties |-> props])
                  /\ UNCHANGED <<totalSkipped, processed>>
    /\ rowIdx' = rowIdx + 1
    /\ pc' = IF rowIdx = Len(rows) THEN "WAVE" ELSE "MAP"
    /\ i' = 0
    /\ UNCHANGED <<settings, files, remote>>
    /\ UNCHANGED <<run, thrown, pageToken, rows, wave, idx, call>>
    /\ UNCHANGED <<startCheckpoint, waveCsvRows, errors>>
    /\ UNCHANGED <<totalFetched, totalAttempted, totalUpdated>>

\* faulty variant: only the last item of the wave is recorded
DryRunCsvLastOnly(file, items) ==
    IF items = <<>> THEN file
    ELSE WriteCsvAppend(file, <<CsvRow(items[Len(items)], "DRY_RUN", "")>>)

\* faulty variant: the records of the wave go to the file in one append
DryRunCsvOneAppend(file, items) ==
    WriteCsvAppend(file, [k \in 1..Len(items) |-> CsvRow(items[k], "DRY_RUN", "")])

\* Lines 206-220: the dry-run loop over the wave; with outputCsvPath every
\* item appends its own DRY_RUN record to the audit file.
RECURSIVE DryRunCsv(_, _)
DryRunCsv(file, items) ==
    IF items = <<>> THEN file
    ELSE DryRunCsv(WriteCsvAppend(file, <<CsvRow(Head(items), "DRY_RUN", "")>>), Tail(items))

\* the updates started for `id` among the first n items
Started(items, n, id) == Cardinality({k \in 1..n : items[k].id = id})

\* faulty variant: a previewed item is not added to the processed set
DryRunWaveUnmarked ==
    /\ pc = "WAVE"
    /\ i < Len(batchUpdates)
    /\ ~cfg.apply
    /\ LET w == Slice(batchUpdates, i, cfg.updateBatchSize)
       IN  /\ wave' = w
           /\ totalAttempted' = totalAttempted + Len(w)
           /\ csvFile' = IF cfg.outputCsvPath THEN DryRunCsv(csvFile, w) ELSE csvFile
    /\ pc' = "SAVE"
    /\ UNCHANGED <<settings, checkpointFile, remote>>
    /\ UNCHANGED <<run, thrown, pageToken, rows, rowIdx, i, idx, call>>
    /\ UNCHANGED <<processed, startCheckpoint, batchUpdates, waveCsvRows, errors>>
    /\ UNCHANGED <<totalFetched, totalUpdated, totalSkipped>>

\* Lines 199-223, apply = false: the next wave is recorded, not sent.
DryRunWave ==
    /\ pc = "WAVE"
    /\ i < Len(batchUpdates)
    /\ ~cfg.apply
    /\ LET w == Slice(batchUpdates, i, cfg.updateBatchSize)
       IN  /\ wave' = w
           /\ totalAttempted' = totalAttempted + Len(w)
           /\ csvFile' = IF cfg.outputCsvPath THEN DryRunCsv(csvFile, w) ELSE csvFile
           /\ processed' = processed \cup WaveIds(w)
    /\ pc' = "SAVE"
    /\ UNCHANGED <<settings, checkpointFile, remote>>
    /\ UNCHANGED <<run, thrown, pageToken, rows, rowIdx, i, idx, call>>
    /\ UNCHANGED <<startCheckpoint, batchUpdates, waveCsvRows, errors>>
    /\ UNCHANGED <<totalFetched, totalUpdated, totalSkipped>>

\* Lines 199-231, apply = true: runWithConcurrency starts its workers, and
\* each worker that finds an item calls the remote update for it.
StartWave ==
    /\ pc = "WAVE"
    /\ i < Len(batchUpdates)
    /\ cfg.apply
    /\ LET w == Slice(batchUpdates, i, cfg.updateBatchSize)
           n == WorkersStarted(w, cfg.updateConcurrency)
       IN  /\ wave' = w
           /\ call' = [k \in 1..Len(w) |-> IF k <= n THEN "inflight" ELSE "none"]
           /\ totalAttempted' = totalAttempted + n
           /\ updateCalls' = [id \in Ids |-> updateCalls[id] + Started(w, n, id)]
    /\ idx' = cfg.updateConcurrency
    /\ waveCsvRows' = <<>>
    /\ pc' = "DISPATCH"
    /\ UNCHANGED <<settings, files, priorCalls, applied, pagesFetched>>
    /\ UNCHANGED <<run, thrown, pageToken, rows, rowIdx, i>>
    /\ UNCHANGED <<processed, startCheckpoint, batchUpdates, errors>>
    /\ UNCHANGED <<totalFetched, totalUpdated, totalSkipped>>

\* faulty variant: the shared index is read but not advanced
WorkerTakesSame(c) ==
    /\ idx' = idx
    /\ IF idx < Len(wave)
       THEN /\ call' = [c EXCEPT ![idx + 1] = "inflight"]
            /\ totalAttempted' = totalAttempted + 1
            /\ updateCalls' = [updateCalls EXCEPT ![wave[idx + 1].id] = @ + 1]
       ELSE /\ call' = c
            /\ UNCHANGED <<totalAttempted, updateCalls>>

\* Lines 33-37 after a worker's `await workerFn(...)`: the worker takes
\* `idx++` and, if an item is left, calls the remote update for it
\* (lines 229-231).  `c` is the wave's calls after the update that ended.
WorkerTakesNext(c) ==
    /\ idx' = idx + 1
    /\ IF idx < Len(wave)
       THEN /\ call' = [c EXCEPT ![idx + 1] = "inflight"]
            /\ totalAttempted' = totalAttempted + 1
            /\ updateCalls' = [updateCalls EXCEPT ![wave[idx + 1].id] = @ + 1]
       ELSE /\ call' = c
            /\ UNCHANGED <<totalAttempted, updateCalls>>

\* Lines 231-241: the remote update of item k returns.
UpdateReturns(k) ==
    /\ pc = "DISPATCH"
    /\ k \in InFlight
    /\ totalUpdated' = totalUpdated + 1
    /\ waveCsvRows' = Append(waveCsvRows, CsvRow(wave[k], "UPDATED", ""))
    /\ processed' = processed \cup {wave[k].id}
    /\ applied' = applied \cup {wave[k].id}
    /\ WorkerTakesNext([call EXCEPT ![k] = "returned"])
    /\ UNCHANGED <<settings, files, priorCalls, pagesFetched>>
    /\ UNCHANGED <<run, pc, thrown, pageToken, rows, rowIdx, i, wave>>
    /\ UNCHANGED <<startCheckpoint, batchUpdates, errors>>
    /\ UNCHANGED <<totalFetched, totalSkipped>>

\* faulty variant: no try/catch around the update: the error leaves the run
UpdateThrowsPropagates(k, e) ==
    /\ pc = "DISPATCH"
    /\ k \in InFlight
    /\ pc' = "THROWN"
    /\ thrown' = "update"
    /\ call' = [call EXCEPT ![k] = "threw"]
    /\ UNCHANGED <<settings, files, totals, remote, memory>>
    /\ UNCHANGED <<run, pageToken, rows, rowIdx, i, wave, idx>>

\* faulty variant: the failed identifier is not marked as processed
UpdateThrowsUnmarked(k, e) ==
    /\ pc = "DISPATCH"
    /\ k \in InFlight
    /\ errors' = Append(errors, [matchVal |-> wave[k].id, error |-> ErrText(e),
                                 properties |-> wave[k].properties])
    /\ waveCsvRows' = Append(waveCsvRows, CsvRow(wave[k], "ERROR", ErrText(e)))
    /\ WorkerTakesNext([call EXCEPT ![k] = "threw"])
    /\ UNCHANGED <<settings, files, priorCalls, applied, pagesFetched>>
    /\ UNCHANGED <<run, pc, thrown, pageToken, rows, rowIdx, i, wave>>
    /\ UNCHANGED <<processed, startCheckpoint, batchUpdates>>
    /\ UNCHANGED <<totalFetched, totalUpdated, totalSkipped>>

\* Lines 242-258: the remote update of item k throws e.
UpdateThrows(k, e) ==
    /\ pc = "DISPATCH"
    /\ k \in InFlight
    /\ errors' = Append(errors, [matchVal |-> wave[k].id, error |-> ErrText(e),
                                 properties |-> wave[k].properties])
    /\ waveCsvRows' = Append(waveCsvRows, CsvRow(wave[k], "ERROR", ErrText(e)))
    /\ processed' = processed \cup {wave[k].id}
    /\ WorkerTakesNext([call EXCEPT ![k] = "threw"])
    /\ UNCHANGED <<settings, files, priorCalls, applied, pagesFetched>>
    /\ UNCHANGED <<run, pc, thrown, pageToken, rows, rowIdx, i, wave>>
    /\ UNCHANGED <<startCheckpoint, batchUpdates>>
    /\ UNCHANGED <<totalFetched, totalUpdated, totalSkipped>>

\* faulty variant: the audit append does not wait for the workers
FlushCsvEarly ==
    /\ pc = "DISPATCH"
    /\ csvFile' = IF cfg.outputCsvPath /\ Len(waveCsvRows) > 0
                  THEN WriteCsvAppend(csvFile, waveCsvRows) ELSE csvFile
    /\ pc' = "SAVE"
    /\ UNCHANGED <<settings, checkpointFile, totals, remote, memory>>
    /\ UNCHANGED <<run, thrown, pageToken, rows, rowIdx, i, wave, idx, call>>

\* faulty variant: the wave is taken to be over when the shared index equals
\* the number of its items
FlushCsvAtIndex ==
    /\ pc = "DISPATCH"
    /\ InFlight = {}
    /\ idx = Len(wave)
    /\ csvFile' = IF cfg.outputCsvPath /\ Len(waveCsvRows) > 0
                  THEN WriteCsvAppend(csvFile, waveCsvRows) ELSE csvFile
    /\ pc' = "SAVE"
    /\ UNCHANGED <<settings, checkpointFile, totals, remote, memory>>
    /\ UNCHANGED <<run, thrown, pageToken, rows, rowIdx, i, wave, idx, call>>

\* faulty variant: the checkpoint is saved where the audit append belongs
FlushCsvSavesCheckpoint ==
    /\ pc = "DISPATCH"
    /\ InFlight = {}
    /\ checkpointFile' = SaveCheckpoint(checkpointFile, processed)
    /\ pc' = "SAVE"
    /\ UNCHANGED <<settings, csvFile, totals, remote, memory>>
    /\ UNCHANGED <<run, thrown, pageToken, rows, rowIdx, i, wave, idx, call>>

\* Lines 39 and 261-264: every worker has ended (Promise.all); the wave's
\* records go to the audit file in one append.
FlushCsv ==
    /\ pc = "DISPATCH"
    /\ InFlight = {}
    /\ csvFile' = IF cfg.outputCsvPath /\ Len(waveCsvRows) > 0
                  THEN WriteCsvAppend(csvFile, waveCsvRows) ELSE csvFile
    /\ pc' = "SAVE"
    /\ UNCHANGED <<settings, checkpointFile, totals, remote, memory>>
    /\ UNCHANGED <<run, thrown, pageToken, rows, rowIdx, i, wave, idx, call>>

\* faulty variant: the wave loop goes on without saveCheckpoint
FlushCheckpointNoSave ==
    /\ pc = "SAVE"
    /\ i' = i + cfg.updateBatchSize
    /\ pc' = "WAVE"
    /\ UNCHANGED <<settings, files, totals, remote, memory>>
    /\ UNCHANGED <<run, thrown, pageToken, rows, rowIdx, wave, idx, call>>

\* Lines 221 and 267: saveCheckpoint, then the wave loop's `i += updateBatchSize`.
FlushCheckpoint ==
    /\ pc = "SAVE"
    /\ checkpointFile' = SaveCheckpoint(checkpointFile, processed)
    /\ i' = i + cfg.updateBatchSize
    /\ pc' = "WAVE"
    /\ UNCHANGED <<settings, csvFile, totals, remote, memory>>
    /\ UNCHANGED <<run, thrown, pageToken, rows, rowIdx, wave, idx, call>>

\* faulty variant: the token is not tested and the loop fetches again
EndOfPageFetchesAgain ==
    /\ pc = "WAVE"
    /\ i >= Len(batchUpdates)
    /\ pc' = "PAGING"
    /\ UNCHANGED <<settings, files, totals, remote, memory>>
    /\ UNCHANGED <<run, thrown, pageToken, rows, rowIdx, i, wave, idx, call>>

\* Lines 199 and 274-287: no wave is left; without a token the loop ends and
\* the summary is returned, with one the next page is fetched.
EndOfPage ==
    /\ pc = "WAVE"
    /\ i >= Len(batchUpdates)
    /\ pc' = IF pageToken = 0 THEN "DONE" ELSE "PAGING"
    /\ UNCHANGED <<settings, files, totals, remote, memory>>
    /\ UNCHANGED <<run, thrown, pageToken, rows, rowIdx, i, wave, idx, call>>

\* The run has returned its summary and the caller runs the same sync again:
\* same arguments, same query result, the files as the last run left them.
Rerun ==
    /\ pc = "DONE"
    /\ run < MaxRuns
    /\ run' = run + 1
    /\ pc' = "INIT"
    /\ thrown' = "none"
    /\ processed' = {}
    /\ startCheckpoint' = {}
    /\ pageToken' = 0
    /\ rows' = <<>>
    /\ rowIdx' = 1
    /\ batchUpdates' = <<>>
    /\ i' = 0
    /\ wave' = <<>>
    /\ idx' = 0
    /\ call' = <<>>
    /\ waveCsvRows' = <<>>
    /\ totalFetched' = 0
    /\ totalAttempted' = 0
    /\ totalUpdated' = 0
    /\ totalSkipped' = 0
    /\ errors' = <<>>
    /\ priorCalls' = [id \in Ids |-> priorCalls[id] + updateCalls[id]]
    /\ updateCalls' = NoCalls
    /\ applied' = {}
    /\ pagesFetched' = 0
    /\ UNCHANGED <<settings, files>>

Next ==
    \/ StartRun
    \/ QueryRejected
    \/ FetchPage
    \/ FetchRejected
    \/ MapRow
    \/ DryRunWave
    \/ StartWave
    \/ \E k \in 1..MaxBatchSize : UpdateReturns(k)
    \/ \E k \in 1..MaxBatchSize, e \in Errors : UpdateThrows(k, e)
    \/ FlushCsv
    \/ FlushCheckpoint
    \/ EndOfPage

\* one run of the sync, from any settings, query result and checkpoint file
Spec == Init /\ [][Next]_vars

NextWithReruns ==
    \/ Next
    \/ Rerun

\* a first run that finds no checkpoint file and writes no audit file (the
\* audit file is never read by a run)
InitReruns ==
    /\ Init
    /\ checkpointFile.kind = "absent"
    /\ ~cfg.outputCsvPath

\* a run and its reruns on the same files
SpecReruns == InitReruns /\ [][NextWithReruns]_vars

\* The dry run has returned its summary and the caller runs the sync again
\* with apply set: same query result, the files as the dry run left them.
RerunApplying ==
    /\ pc = "DONE"
    /\ run < MaxRuns
    /\ ~cfg.apply
    /\ cfg' = [cfg EXCEPT !.apply = TRUE]
    /\ run' = run + 1
    /\ pc' = "INIT"
    /\ thrown' = "none"
    /\ processed' = {}
    /\ startCheckpoint' = {}
    /\ pageToken' = 0
    /\ rows' = <<>>
    /\ rowIdx' = 1
    /\ batchUpdates' = <<>>
    /\ i' = 0
    /\ wave' = <<>>
    /\ idx' = 0
    /\ call' = <<>>
    /\ waveCsvRows' = <<>>
    /\ totalFetched' = 0
    /\ totalAttempted' = 0
    /\ totalUpdated' = 0
    /\ totalSkipped' = 0
    /\ errors' = <<>>
    /\ priorCalls' = [id \in Ids |-> priorCalls[id] + updateCalls[id]]
    /\ updateCalls' = NoCalls
    /\ applied' = {}
    /\ pagesFetched' = 0
    /\ UNCHANGED <<table, cli, files>>

NextWithAudit ==
    \/ Next
    \/ Rerun
    \/ RerunApplying

\* a first run that finds neither a checkpoint file nor an audit file and
\* is given an audit path; one worker, so that the records of a wave come
\* in the order of its items
InitAudit ==
    /\ Init
    /\ checkpointFile.kind = "absent"
    /\ cfg.outputCsvPath
    /\ cfg.dropBlanks
    /\ cfg.updateConcurrency = 1

\* a run and its reruns on the same checkpoint file and the same audit file
SpecAudit == InitAudit /\ [][NextWithAudit]_vars

\* checkpoint files that loadCheckpoint cannot use: none at the path, one
\* that cannot be read, one whose text is not JSON (an array cut short), and
\* JSON that is no array (an object); `ids` is what the text mentions
UnusableCheckpoints ==
    {[kind |-> "absent", ids |-> {}]}
    \cup {[kind |-> k, ids |-> {<<"7">>}] : k \in {"unreadable", "malformed", "notarray"}}

\* the arguments of a caller that skips what is already processed
LoadSettings ==
    {c \in Settings :
        c.skipAlreadyProcessed /\ c.dropBlanks /\ c.updateConcurrency = MaxConcurrency}

InitLoad == Start(LoadSettings, UnusableCheckpoints, RowKinds)

\* one run of the sync that finds no usable checkpoint file
SpecLoad == InitLoad /\ [][Next]_vars

\* the steps the run takes by itself, the warehouse returning each page
RunSteps ==
    \/ StartRun
    \/ FetchPage
    \/ MapRow
    \/ DryRunWave
    \/ StartWave
    \/ FlushCsv
    \/ FlushCheckpoint
    \/ EndOfPage

\* the remote update of item k ends, one way or the other
UpdateEnds(k) ==
    \/ UpdateReturns(k)
    \/ \E e \in Errors : UpdateThrows(k, e)

\* a run with at least one worker that finds no checkpoint file, so that
\* no row is skipped on its account
InitLive ==
    /\ Init
    /\ cfg.updateConcurrency >= 1
    /\ cfg.dropBlanks
    /\ checkpointFile.kind = "absent"

\* one run of the sync in which the event loop runs whatever is ready and
\* every remote update that was called ends
SpecLive ==
    /\ InitLive
    /\ [][Next]_vars
    /\ WF_vars(RunSteps)
    /\ \A k \in 1..MaxBatchSize : WF_vars(UpdateEnds(k))

NextWithConfig ==
    \/ Next
    \/ ConfigRejected

\* a first call by any caller, on a checkpoint file that an earlier use left
\* and a query result that may hold rows without an identifier
InitConfig ==
    Start(ConfigSettings, {[kind |-> "array", ids |-> {<<"7">>}]}, RowKinds \cup IdlessRows)

\* one run of the sync, its arguments validated first
SpecConfig == InitConfig /\ [][NextWithConfig]_vars

----------------------------------------------------------------------------
(* hubspot-import-cli.js *)

\* most rows a query of the import CLI returns
MaxCliRows == 3
\* most merge groups a query of the import CLI returns
MaxGroups == 2
\* inputs of a batch, the 100 of chunk(inputs, 100) and chunk(ids, 100)
\* scaled down
ChunkSize == 2

\* a JavaScript array of values
Arr(items) == [t |-> "array", s |-> <<>>, n |-> 0, items |-> items]

\* s(v): (v ?? "").toString().trim()
sTrim(v) == IF v.t \in {"null", "undefined"} THEN <<>> ELSE Trim(JsString(v))

\* toLowerCase(), on the letters the rows use
ToLowerCase(str) ==
    [k \in 1..Len(str) |->
        CASE str[k] = "A" -> "a"
          [] str[k] = "B" -> "b"
          [] OTHER        -> str[k]]

\* the members of a sequence that are not the empty string: filter(Boolean)
NonEmpty(q) == SelectSeq(q, LAMBDA x : x # <<>>)

\* str.split(",")
RECURSIVE SplitComma(_)
SplitComma(str) ==
    LET commas == {k \in 1..Len(str) : str[k] = ","}
    IN  IF commas = {} THEN <<str>>
        ELSE LET k == CHOOSE c \in commas : \A d \in commas : c <= d
             IN  <<SubSeq(str, 1, k - 1)>> \o SplitComma(SubSeq(str, k + 1, Len(str)))

\* chunk(arr, size)
RECURSIVE chunk(_, _)
chunk(arr, size) ==
    IF arr = <<>> THEN <<>>
    ELSE <<SubSeq(arr, 1, Min(size, Len(arr)))>>
         \o chunk(SubSeq(arr, Min(size, Len(arr)) + 1, Len(arr)), size)

\* the commands main knows
Commands == {"update", "delete", "merge", "all"}

\* the columns runUpdate copies when they are not blank
UpdateFields ==
    {"firstname", "lastname", "phone", "jobtitle", "lifecyclestage",
     "hs_lead_status", "city", "state", "country"}

\* a row of the update table; the columns not given are absent
UpdateRow(email, firstname, country) ==
    [f \in UpdateFields \cup {"email"} |->
        CASE f = "email"     -> email
          [] f = "firstname" -> firstname
          [] f = "country"   -> country
          [] OTHER           -> Undef]

\* the kinds of row the three tables hold
UpdateRowKinds == {
    UpdateRow(Str(<<"A", "@", "x">>), Str(<<"A", "l">>), Str(<<" ">>)),
    UpdateRow(Str(<<" ", "b", "@", "x">>), Null, Str(<<"U", "S">>)),
    UpdateRow(Str(<<" ">>), Str(<<"B", "o">>), Null)
  }

DeleteRowKinds == {[id |-> Num(5)], [id |-> Str(<<"6", " ">>)], [id |-> Null]}

MergeRowKinds == {
    [merge_key |-> Str(<<"k">>), primary_id |-> Num(1),
     merge_these_ids |-> Arr(<<Str(<<"2">>), Str(<<" ">>)>>)],
    [merge_key |-> Str(<<"k">>), primary_id |-> Str(<<"1", " ">>),
     merge_these_ids |-> Str(<<"2", ",", " ", "3">>)],
    [merge_key |-> Null, primary_id |-> Null,
     merge_these_ids |-> Arr(<<Str(<<"2">>)>>)],
    [merge_key |-> Str(<<"k">>), primary_id |-> Str(<<"1">>),
     merge_these_ids |-> Null]
  }

\* what bqQuery can return to an action
QueryResults(action) ==
    CASE action = "update" -> SeqsUpTo(UpdateRowKinds, MaxCliRows)
      [] action = "delete" -> SeqsUpTo(DeleteRowKinds, MaxCliRows)
      [] action = "merge"  -> SeqsUpTo(MergeRowKinds, MaxGroups)

\* runUpdate: rows.map(...).filter(x => x.email)
Inputs(rws) ==
    SelectSeq(
        [k \in 1..Len(rws) |->
            [email |-> ToLowerCase(sTrim(rws[k]["email"])),
             props |-> [f \in {g \in UpdateFields : sTrim(rws[k][g]) # <<>>} |->
                          sTrim(rws[k][f])]]],
        LAMBDA x : x.email # <<>>)

\* runDelete: rows.map(r => s(r.id)).filter(Boolean)
ArchiveIds(rws) == NonEmpty([k \in 1..Len(rws) |-> sTrim(rws[k].id)])

\* runMerge: merge_these_ids as an array or as a comma-separated string
MergeTheseIds(v) ==
    IF v.t = "array"
    THEN NonEmpty([k \in 1..Len(v.items) |-> sTrim(v.items[k])])
    ELSE LET parts == SplitComma(sTrim(v))
         IN  NonEmpty([k \in 1..Len(parts) |-> Trim(parts[k])])

\* runMerge: rows.map(...).filter(g => g.primary_id && g.merge_these_ids.length)
Groups(rws) ==
    SelectSeq(
        [k \in 1..Len(rws) |->
            [merge_key |-> sTrim(rws[k].merge_key),
             primary_id |-> sTrim(rws[k].primary_id),
             merge_these_ids |-> MergeTheseIds(rws[k].merge_these_ids)]],
        LAMBDA g : g.primary_id # <<>> /\ g.merge_these_ids # <<>>)

\* runMerge: the mergeContact calls of the two nested loops, in order
RECURSIVE Pairs(_)
Pairs(groups) ==
    IF groups = <<>> THEN <<>>
    ELSE [k \in 1..Len(Head(groups).merge_these_ids) |->
            [primaryObjectId |-> Head(groups).primary_id,
             objectIdToMerge |-> Head(groups).merge_these_ids[k]]]
         \o Pairs(Tail(groups))

\* what an action prepares from the rows of its table
Prepare(action, rws) ==
    CASE action = "update" -> Inputs(rws)
      [] action = "delete" -> ArchiveIds(rws)
      [] action = "merge"  -> Groups(rws)

\* the write calls an action makes for what it prepared: one per batch of
\* inputs or ids, one per merge pair
Calls(action, items) ==
    CASE action = "update" -> chunk(items, ChunkSize)
      [] action = "delete" -> chunk(items, ChunkSize)
      [] action = "merge"  -> Pairs(items)

\* the body of the write call for one batch or pair
Payload(action, item) ==
    CASE action = "update" ->
             [k \in 1..Len(item) |-> [id |-> item[k].email, properties |-> item[k].props]]
      [] action = "delete" -> [k \in 1..Len(item) |-> [id |-> item[k]]]
      [] action = "merge"  -> item

\* the kind of write call of an action
WriteKind(action) ==
    CASE action = "update" -> "update"
      [] action = "delete" -> "archive"
      [] action = "merge"  -> "merge"

\* the action's table is named in .env
TableSet(action) ==
    CASE action = "update" -> env.updateTable
      [] action = "delete" -> env.deleteTable
      [] action = "merge"  -> env.mergeTable

\* faulty variant: "all" runs the actions in the order of the usage text
PlanUpdateFirst(c) ==
    CASE c = "update" -> <<"update">>
      [] c = "delete" -> <<"delete">>
      [] c = "merge"  -> <<"merge">>
      [] c = "all"    -> <<"update", "delete", "merge">>

\* main: the actions a command runs, in order
Plan(c) ==
    CASE c = "update" -> <<"update">>
      [] c = "delete" -> <<"delete">>
      [] c = "merge"  -> <<"merge">>
      [] c = "all"    -> <<"merge", "update", "delete">>

\* no sync runs in the process of the import CLI
SyncOff ==
    /\ cfg = <<>>
    /\ table = <<>>
    /\ checkpointFile = [kind |-> "absent", ids |-> {}]
    /\ csvFile = [exists |-> FALSE, appends |-> 0, lines |-> <<>>]
    /\ run = 1
    /\ pc = "OFF"
    /\ thrown = "none"
    /\ processed = {}
    /\ startCheckpoint = {}
    /\ pageToken = 0
    /\ rows = <<>>
    /\ rowIdx = 1
    /\ batchUpdates = <<>>
    /\ i = 0
    /\ wave = <<>>
    /\ idx = 0
    /\ call = <<>>
    /\ waveCsvRows = <<>>
    /\ totalFetched = 0
    /\ totalAttempted = 0
    /\ totalUpdated = 0
    /\ totalSkipped = 0
    /\ errors = <<>>
    /\ updateCalls = NoCalls
    /\ priorCalls = NoCalls
    /\ pagesFetched = 0
    /\ applied = {}

sync == <<cfg, table, files, control, memory, totals, remote>>

\* the process is started: any command line, any .env
InitCli ==
    /\ SyncOff
    /\ cmd \in Commands \cup {"help"}
    /\ APPLY \in BOOLEAN
    /\ env \in [token : BOOLEAN, project : BOOLEAN,
                updateTable : BOOLEAN, deleteTable : BOOLEAN, mergeTable : BOOLEAN]
    /\ cliPc = "LOAD"
    /\ plan = <<>>
    /\ prepared = <<>>
    /\ queue = <<>>
    /\ inflight = <<>>
    /\ sent = NoWrites
    /\ failed = NoWrites
    /\ due = NoWrites

\* Lines 211-212: the token or the project is missing; the module throws
\* while it loads.
EnvRejected ==
    /\ cliPc = "LOAD"
    /\ ~env.token \/ ~env.project
    /\ cliPc' = "EXIT1"
    /\ UNCHANGED <<sync, cmd, APPLY, env, plan, prepared, queue, inflight, sent, failed, due>>

\* Lines 221-225: no command or an unknown one: the usage text, exit code 0.
Usage ==
    /\ cliPc = "LOAD"
    /\ env.token /\ env.project
    /\ cmd \notin Commands
    /\ cliPc' = "EXIT0"
    /\ UNCHANGED <<sync, cmd, APPLY, env, plan, prepared, queue, inflight, sent, failed, due>>

\* Lines 436-455: main starts with the actions of the command.
Main ==
    /\ cliPc = "LOAD"
    /\ env.token /\ env.project
    /\ cmd \in Commands
    /\ plan' = Plan(cmd)
    /\ cliPc' = "MAIN"
    /\ UNCHANGED <<sync, cmd, APPLY, env, prepared, queue, inflight, sent, failed, due>>

\* Lines 263-271, 342-351, 381-393: the next action finds its table named
\* and sends its query.
ActionStarts ==
    /\ cliPc = "MAIN"
    /\ plan # <<>>
    /\ TableSet(Head(plan))
    /\ cliPc' = "QUERY"
    /\ UNCHANGED <<sync, cmd, APPLY, env, plan, prepared, queue, inflight, sent, failed, due>>

\* Lines 263, 342, 381: the action's table is not named; the error leaves
\* main and the process exits with code 1.
TableMissing ==
    /\ cliPc = "MAIN"
    /\ plan # <<>>
    /\ ~TableSet(Head(plan))
    /\ cliPc' = "EXIT1"
    /\ UNCHANGED <<sync, cmd, APPLY, env, plan, prepared, queue, inflight, sent, failed, due>>

\* Lines 231-235: createQueryJob or getQueryResults rejects; the error
\* leaves main and the process exits with code 1.
BqQueryRejected ==
    /\ cliPc = "QUERY"
    /\ cliPc' = "EXIT1"
    /\ UNCHANGED <<sync, cmd, APPLY, env, plan, prepared, queue, inflight, sent, failed, due>>

\* Lines 271-303, 351-355, 393-407: the rows arrive and the action prepares
\* its inputs, ids or groups.
BqQueryReturns ==
    /\ cliPc = "QUERY"
    /\ \E rws \in QueryResults(Head(plan)) : prepared' = Prepare(Head(plan), rws)
    /\ cliPc' = "PREPARED"
    /\ UNCHANGED <<sync, cmd, APPLY, env, plan, queue, inflight, sent, failed, due>>

\* Lines 305-308, 357-360, 409-413: without --apply the action returns.
DryRunReturns ==
    /\ cliPc = "PREPARED"
    /\ ~APPLY
    /\ plan' = Tail(plan)
    /\ cliPc' = "MAIN"
    /\ UNCHANGED <<sync, cmd, APPLY, env, prepared, queue, inflight, sent, failed, due>>

\* faulty variant: the action goes on to its loop without looking at APPLY
LoopStartsAlways ==
    /\ cliPc = "PREPARED"
    /\ queue' = Calls(Head(plan), prepared)
    /\ due' = [due EXCEPT ![WriteKind(Head(plan))] = Len(queue')]
    /\ cliPc' = "SEND"
    /\ UNCHANGED <<sync, cmd, APPLY, env, plan, prepared, inflight, sent, failed>>

\* Lines 311-314, 362-365, 415-419: with --apply the action goes on to the
\* loop over its batches or pairs.
LoopStarts ==
    /\ cliPc = "PREPARED"
    /\ APPLY
    /\ queue' = Calls(Head(plan), prepared)
    /\ due' = [due EXCEPT ![WriteKind(Head(plan))] = Len(queue')]
    /\ cliPc' = "SEND"
    /\ UNCHANGED <<sync, cmd, APPLY, env, plan, prepared, inflight, sent, failed>>

\* Lines 314-326, 365-367, 418-421: the next batch or pair is sent to
\* HubSpot and awaited.
WriteSent ==
    /\ cliPc = "SEND"
    /\ queue # <<>>
    /\ inflight' = <<[kind |-> WriteKind(Head(plan)),
                      body |-> Payload(Head(plan), Head(queue))]>>
    /\ sent' = [sent EXCEPT ![WriteKind(Head(plan))] = @ + 1]
    /\ cliPc' = "WAIT"
    /\ UNCHANGED <<sync, cmd, APPLY, env, plan, prepared, queue, failed, due>>

\* Lines 327-328, 368-369, 422-423: the write call returns.
WriteReturns ==
    /\ cliPc = "WAIT"
    /\ inflight' = <<>>
    /\ cliPc' = "SLEEP"
    /\ UNCHANGED <<sync, cmd, APPLY, env, plan, prepared, queue, sent, failed, due>>

\* faulty variant: no try/catch around the write call: the error leaves
\* main and the process exits with code 1
WriteThrowsUncaught ==
    /\ cliPc = "WAIT"
    /\ inflight' = <<>>
    /\ failed' = [failed EXCEPT ![inflight[1].kind] = @ + 1]
    /\ cliPc' = "EXIT1"
    /\ UNCHANGED <<sync, cmd, APPLY, env, plan, prepared, queue, sent, due>>

\* Lines 329-333, 370-373, 424-427: the write call throws; the catch logs
\* the error.
WriteThrows ==
    /\ cliPc = "WAIT"
    /\ inflight' = <<>>
    /\ failed' = [failed EXCEPT ![inflight[1].kind] = @ + 1]
    /\ cliPc' = "SLEEP"
    /\ UNCHANGED <<sync, cmd, APPLY, env, plan, prepared, queue, sent, due>>

\* Lines 336, 375, 430: the pause after a call is over; the loop goes on.
SleepEnds ==
    /\ cliPc = "SLEEP"
    /\ queue' = Tail(queue)
    /\ cliPc' = "SEND"
    /\ UNCHANGED <<sync, cmd, APPLY, env, plan, prepared, inflight, sent, failed, due>>

\* Lines 338, 377, 433: the loop is over and the action returns to main.
ActionReturns ==
    /\ cliPc = "SEND"
    /\ queue = <<>>
    /\ plan' = Tail(plan)
    /\ cliPc' = "MAIN"
    /\ UNCHANGED <<sync, cmd, APPLY, env, prepared, queue, inflight, sent, failed, due>>

\* Line 457: no action is left; main logs "Done." and the process ends.
Done ==
    /\ cliPc = "MAIN"
    /\ plan = <<>>
    /\ cliPc' = "EXIT0"
    /\ UNCHANGED <<sync, cmd, APPLY, env, plan, prepared, queue, inflight, sent, failed, due>>

NextCli ==
    \/ EnvRejected
    \/ Usage
    \/ Main
    \/ ActionStarts
    \/ TableMissing
    \/ BqQueryRejected
    \/ BqQueryReturns
    \/ DryRunReturns
    \/ LoopStarts
    \/ WriteSent
    \/ WriteReturns
    \/ WriteThrows
    \/ SleepEnds
    \/ ActionReturns
    \/ Done

\* one run of hubspot-import-cli.js
SpecCli == InitCli /\ [][NextCli]_vars

----------------------------------------------------------------------------
(* Properties *)

\* the identifiers in the checkpoint file
CheckpointIds == checkpointFile.ids

\* the audit records in the audit file, in order
AuditRows == SelectSeq(csvFile.lines, LAMBDA l : ~l.header)

\* how many members of a sequence satisfy a test
CountOf(q, Test(_)) == Cardinality({k \in 1..Len(q) : Test(q[k])})

\* the identifiers of the records a step appends to the audit file
AppendedIds ==
    {csvFile'.lines[k].row[1].matchVal :
        k \in {j \in (Len(csvFile.lines) + 1)..Len(csvFile'.lines) : ~csvFile'.lines[j].header}}

\* C1: with skipAlreadyProcessed = true, an identifier that the checkpoint
\* file held when the run started never becomes a pending update, is never
\* passed to the remote update and gets no audit record; a row that carries
\* it adds one to the skipped count and changes nothing else.
C1_CheckpointedNeverDispatched ==
    [][ cfg.skipAlreadyProcessed =>
          \A id \in startCheckpoint' :
            /\ updateCalls'[id] = updateCalls[id]
            /\ id \notin AppendedIds
            /\ id \notin WaveIds(batchUpdates')
            /\ (pc = "MAP" /\ RowId(rows[rowIdx]) = id) =>
                  /\ totalSkipped' = totalSkipped + 1
                  /\ UNCHANGED <<processed, batchUpdates, files, errors, remote>>
                  /\ UNCHANGED <<totalFetched, totalAttempted, totalUpdated>> ]_vars

\* C1 witness: a run that started with "7" in the checkpoint has skipped the
\* row carrying it and has sent the update of another identifier.
C1_Witness ==
    /\ cfg.skipAlreadyProcessed
    /\ pc = "DONE"
    /\ startCheckpoint = {<<"7">>}
    /\ \E k \in 1..Len(table) : RowId(table[k]) = <<"7">>
    /\ totalSkipped = 1
    /\ totalAttempted = 1

\* C2 as stated: a second run of the same sync, after the first has
\* returned, issues no remote update and reports attempted = 0.
C2_SecondRunIdle ==
    run >= 2 => (totalAttempted = 0 /\ updateCalls = NoCalls)

\* C2 amended: the same, for a sync with skipAlreadyProcessed = true.
C2_SecondRunIdleWhenSkipping ==
    (run >= 2 /\ cfg.skipAlreadyProcessed) =>
        (totalAttempted = 0 /\ updateCalls = NoCalls)

\* C2 witness: the second run has returned after a first run that sent two
\* updates, and it skipped rows.
C2_Witness ==
    /\ run = 2
    /\ pc = "DONE"
    /\ cfg.skipAlreadyProcessed
    /\ cfg.apply
    /\ priorCalls[<<"7">>] + priorCalls[<<"8">>] = 2
    /\ totalSkipped = 2

\* C3 as stated: over a run and its reruns, with the skip enabled, each
\* identifier is passed to the remote update at most once.
C3_AtMostOnce ==
    cfg.skipAlreadyProcessed =>
        \A id \in Ids : priorCalls[id] + updateCalls[id] <= 1

\* the calls of the current wave that ended one way, for one identifier
Ended(how, id) == Cardinality({k \in 1..Len(call) : call[k] = how /\ wave[k].id = id})

\* the wave's audit records with one status, for one identifier
Recorded(status, id) ==
    CountOf(waveCsvRows, LAMBDA row : row.status = status /\ row.matchVal = id)

\* the rows of the query result without an identifier
InvalidRows == CountOf(table, LAMBDA r : RowId(r) = <<>>)

\* C4: in apply mode a throwing update ends only its own item: the wave's
\* records hold one ERROR record per thrown call and one UPDATED record per
\* returned call, the identifier of every ended call is in the processed
\* set, every thrown call has its entry in the error list, the wave ends
\* with every item attempted, its records reach the audit file when
\* outputCsvPath is set, and the run returns with every row accounted for.
C4_PartialFailureIsolation ==
    cfg.apply =>
      /\ \A id \in Ids :
           /\ Recorded("ERROR", id) = Ended("threw", id)
           /\ Recorded("UPDATED", id) = Ended("returned", id)
      /\ \A k \in 1..Len(call) :
           /\ call[k] \in {"threw", "returned"} => wave[k].id \in processed
           /\ call[k] = "threw" => \E j \in 1..Len(errors) : errors[j].matchVal = wave[k].id
      /\ Len(errors) + totalUpdated + Cardinality(InFlight) = totalAttempted
      /\ (pc = "SAVE" /\ cfg.updateConcurrency >= 1) =>
           \A k \in 1..Len(wave) : call[k] \in {"threw", "returned"}
      /\ (pc = "SAVE" /\ cfg.outputCsvPath) =>
           /\ Len(AuditRows) >= Len(waveCsvRows)
           /\ \A j \in 1..Len(waveCsvRows) :
                AuditRows[Len(AuditRows) - Len(waveCsvRows) + j].row[1] = waveCsvRows[j]
      /\ (pc = "DONE" /\ cfg.updateConcurrency >= 1) =>
           /\ totalFetched = Len(table)
           /\ InvalidRows + totalSkipped + totalAttempted = totalFetched
      /\ thrown \in {"none", "query", "fetch"}

\* C4 witness: the run has returned after a wave of two whose first update
\* threw and whose second returned.
C4_Witness ==
    /\ cfg.apply
    /\ pc = "DONE"
    /\ call = <<"threw", "returned">>
    /\ Len(errors) = 1
    /\ totalUpdated = 1
    /\ cfg.outputCsvPath

\* C5: the updates in flight never outnumber updateConcurrency.
C5_ConcurrencyBound ==
    Cardinality(InFlight) <= cfg.updateConcurrency

\* C5 witness: a wave larger than the concurrency, with as many updates in
\* flight as allowed after one has already returned.
C5_Witness ==
    /\ pc = "DISPATCH"
    /\ cfg.updateConcurrency >= 1
    /\ Len(wave) > cfg.updateConcurrency
    /\ Cardinality(InFlight) = cfg.updateConcurrency
    /\ \E k \in 1..Len(call) : call[k] = "returned"

\* the last n audit records of the audit file are the records `recs`
AuditEndsWith(recs) ==
    /\ Len(AuditRows) >= Len(recs)
    /\ \A j \in 1..Len(recs) :
         AuditRows[Len(AuditRows) - Len(recs) + j].row[1] = recs[j]

\* the DRY_RUN records of a wave
DryRunRows(items) == [k \in 1..Len(items) |-> CsvRow(items[k], "DRY_RUN", "")]

\* The dry-run statement; `recorded` says when a pending update must have
\* its DRY_RUN record in the audit file.
DryRun(recorded) ==
    ~cfg.apply =>
      /\ updateCalls = NoCalls
      /\ applied = {}
      /\ totalUpdated = 0
      /\ errors = <<>>
      /\ pc = "SAVE" =>
           /\ WaveIds(wave) \subseteq processed
           /\ recorded => AuditEndsWith(DryRunRows(wave))
      /\ pc = "WAVE" =>
           \A k \in 1..Min(i, Len(batchUpdates)) :
             batchUpdates[k].id \in (processed \cap CheckpointIds)
      /\ recorded =>
           /\ totalAttempted = Len(AuditRows)
           /\ \A j \in 1..Len(AuditRows) : AuditRows[j].row[1].status = "DRY_RUN"
      /\ pc = "DONE" =>
           /\ totalFetched = Len(table)
           /\ InvalidRows + totalSkipped + totalAttempted = totalFetched

\* C6 as stated: with apply = false no remote update is called; every
\* pending update is recorded with status DRY_RUN, counted as attempted,
\* added to the processed set and flushed to the checkpoint file; updated
\* stays 0 and the error list empty.
C6_DryRun == DryRun(TRUE)

\* C6 amended: the same, the DRY_RUN record being written when
\* outputCsvPath is set.
C6_DryRunWithAuditPath == DryRun(cfg.outputCsvPath)

\* C6 witness: a dry run with an audit path has returned after recording
\* two pending updates.
C6_Witness ==
    /\ ~cfg.apply
    /\ cfg.outputCsvPath
    /\ pc = "DONE"
    /\ totalAttempted = 2
    /\ Len(AuditRows) = 2
    /\ CheckpointIds = Ids

\* a value the claim calls blank: null, undefined or, with dropBlanks, text
\* of nothing but white space
BlankValue(v) ==
    \/ v.t \in {"null", "undefined"}
    \/ cfg.dropBlanks /\ \A k \in 1..Len(JsString(v)) : JsString(v)[k] \in WhiteSpace

\* every mapped source column of the row is blank
BlankOnly(r) == \A hsProp \in DOMAIN PropertyMap : BlankValue(r[PropertyMap[hsProp]])

\* C7: a row with an identifier whose mapped columns are all blank creates
\* no pending update and sends nothing; it adds one to skipped and its
\* identifier is in the processed set afterwards.
C7_BlankDrop ==
    [][ (pc = "MAP" /\ RowId(rows[rowIdx]) # <<>> /\ BlankOnly(rows[rowIdx])) =>
          /\ batchUpdates' = batchUpdates
          /\ totalSkipped' = totalSkipped + 1
          /\ RowId(rows[rowIdx]) \in processed'
          /\ UNCHANGED <<files, remote, errors, totalAttempted, totalUpdated>> ]_vars

\* C7 witness: the first row of a page, blank by white space alone in one
\* column, has been dropped and its new identifier marked.
C7_Witness ==
    /\ rowIdx = 2
    /\ pc \in {"MAP", "WAVE"}
    /\ RowId(rows[1]) # <<>>
    /\ RowId(rows[1]) \notin startCheckpoint
    /\ BlankOnly(rows[1])
    /\ rows[1].country_normalized = Str(<<" ">>)
    /\ batchUpdates = <<>>
    /\ totalSkipped = 1
    /\ processed = startCheckpoint \cup {RowId(rows[1])}

\* C8 as stated: when the run returns, the checkpoint file holds every
\* identifier of the in-memory processed set.
C8_CheckpointHoldsProcessed ==
    pc = "DONE" => processed \subseteq CheckpointIds

\* C9: in an apply run the identifiers whose update has returned and that
\* the checkpoint file does not hold are never more than updateBatchSize.
C9_CrashBound ==
    cfg.apply => Cardinality(applied \ CheckpointIds) <= cfg.updateBatchSize

\* C9 witness: a second wave's update has returned and is not yet in the
\* checkpoint file, which holds the first wave's.
C9_Witness ==
    /\ cfg.apply
    /\ cfg.updateBatchSize = 1
    /\ Cardinality(applied) = 2
    /\ Cardinality(applied \ CheckpointIds) = 1

\* C10 as stated: after the query job is created the run returns its
\* summary; a thrown error is a configuration or query-submission error.
C10_OnlySubmissionThrows ==
    /\ thrown \in {"none", "query"}

\* C10 amended: a thrown error is a query-submission or a page-fetch error,
\* never a record-update error: update errors are kept in the error list and
\* leave the run going.
C10_UpdateFailuresNeverThrow ==
    /\ thrown \in {"none", "query", "fetch"}
    /\ (pc = "THROWN") <=> (thrown # "none")
    /\ thrown = "query" => totalFetched = 0

\* C10 witness: an update of the first page threw and was recorded, and the
\* fetch of the next page left the run as a thrown error.
C10_Witness ==
    /\ pc = "THROWN"
    /\ thrown = "fetch"
    /\ Len(errors) = 1
    /\ totalFetched = 1

\* every update of the current wave has returned or thrown
WaveCompleted == \A k \in 1..Len(call) : call[k] \in {"returned", "threw"}

\* C11 as stated: while a wave is dispatched, the processed set and the audit
\* file change only when no other update of the wave is left to end.
C11_SharedOnlyAtWaveBoundary ==
    [][ (pc = "DISPATCH" /\ (processed' # processed \/ csvFile' # csvFile)) =>
          WaveCompleted' ]_vars

\* C11 amended: the audit file and the checkpoint file are written only
\* between waves, with no update in flight; the processed set is also
\* changed inside a worker, which adds the identifier of its own item when
\* that item's update ends, whatever else is in flight.
C11_FilesOnlyAtWaveBoundary ==
    [][ /\ (csvFile' # csvFile \/ checkpointFile' # checkpointFile) =>
              /\ InFlight = {}
              /\ InFlight' = {}
              /\ pc \in {"WAVE", "DISPATCH", "SAVE"}
              /\ pc' \in {"SAVE", "WAVE"}
        /\ (pc = "DISPATCH" /\ processed' # processed) =>
              \E k \in InFlight :
                /\ call'[k] \in {"returned", "threw"}
                /\ processed' = processed \cup {wave[k].id}
                /\ UNCHANGED files ]_vars

\* C11 witness: an update of the wave has returned and its identifier is in
\* the processed set while another update is in flight and nothing has been
\* written to either file.
C11_Witness ==
    /\ pc = "DISPATCH"
    /\ InFlight # {}
    /\ cfg.outputCsvPath
    /\ ~csvFile.exists
    /\ checkpointFile.kind = "absent"
    /\ \E k \in 1..Len(call) : call[k] = "returned" /\ wave[k].id \in processed

\* the rows of the query result that carry an identifier
ValidRows == CountOf(table, LAMBDA r : RowId(r) # <<>>)

\* the distinct identifiers of the rows that have a property to update
UpdatableIds ==
    {RowId(table[k]) :
        k \in {j \in 1..Len(table) : RowId(table[j]) # <<>> /\ ~BlankOnly(table[j])}}

\* C12 as stated: the second of two identical runs skips as many rows as
\* the first run had distinct identifiers that were not blank-only.
C12_SkippedIsDistinctIds ==
    (run = 2 /\ pc = "DONE") => totalSkipped = Cardinality(UpdatableIds)

\* C12 amended: with skipAlreadyProcessed = true and updateConcurrency >= 1
\* the second run skips every row that carries an identifier, once per row,
\* rows with a repeated identifier and blank-only rows included.
C12_SkippedIsValidRows ==
    (run = 2 /\ pc = "DONE" /\ cfg.skipAlreadyProcessed /\ cfg.updateConcurrency >= 1) =>
        totalSkipped = ValidRows

\* C12 witness: the second run has returned after skipping two rows that
\* carry the same identifier, both with a property to update.
C12_Witness ==
    /\ run = 2
    /\ pc = "DONE"
    /\ cfg.skipAlreadyProcessed
    /\ cfg.updateConcurrency >= 1
    /\ Len(table) = 2
    /\ Cardinality(UpdatableIds) = 1
    /\ ~BlankOnly(table[1])
    /\ ~BlankOnly(table[2])
    /\ totalSkipped = 2

\* C13: a fetched page adds its size to fetched and nothing else does; a
\* page with zero rows ends the loop whatever its token; after the waves of
\* a page with rows the loop ends if the page's token is null and fetches
\* the next page otherwise; once the run has returned no page is fetched.
C13_PaginationTermination ==
    [][ /\ (pagesFetched' # pagesFetched) =>
              /\ pc = "PAGING"
              /\ pagesFetched' = pagesFetched + 1
              /\ totalFetched' = totalFetched + Len(rows')
              /\ pc' = IF Len(rows') = 0 THEN "DONE" ELSE "MAP"
        /\ (totalFetched' # totalFetched) => (pagesFetched' # pagesFetched)
        /\ (pc' = "PAGING") => (pc = "INIT" \/ (pc = "WAVE" /\ pageToken # 0))
        /\ (pc = "WAVE" /\ i >= Len(batchUpdates) /\ pageToken = 0) => pc' = "DONE"
        /\ (pc = "DONE") => (pagesFetched' = pagesFetched) ]_vars

\* C13 witness: pages of sizes 1, 1 and 0, the last with a token: three
\* fetches, fetched = 2, and the run has returned.
C13_Witness ==
    /\ pc = "DONE"
    /\ pagesFetched = 3
    /\ totalFetched = 2
    /\ rows = <<>>
    /\ pageToken # 0

\* the waves of the page before position i are done: their items are in the
\* checkpoint file, and the audit file ends with the records of the last one
EarlierWavesFlushed ==
    /\ InFlight = {}
    /\ \A k \in 1..Min(i, Len(batchUpdates)) : batchUpdates[k].id \in CheckpointIds
    /\ cfg.outputCsvPath =>
          AuditEndsWith(IF cfg.apply THEN waveCsvRows ELSE DryRunRows(wave))

\* C14: an update is started only for an item of the current wave; a wave
\* starts, and the next page is fetched, only when every earlier wave of the
\* page has ended and has been written to the audit file and the checkpoint;
\* the rows of a page are the next rows of the result.  (A wave's updates are
\* all started only when updateConcurrency >= 1.)
C14_WavesInSequence ==
    [][ (cfg.apply => cfg.updateConcurrency >= 1) =>
          /\ \A id \in Ids :
                updateCalls'[id] # updateCalls[id] =>
                  /\ pc' = "DISPATCH"
                  /\ \E k \in InFlight' : wave'[k].id = id
          /\ (pc = "WAVE" /\ pc' \in {"DISPATCH", "SAVE"}) =>
                /\ EarlierWavesFlushed
                /\ wave' = SubSeq(batchUpdates, i + 1,
                                  Min(i + cfg.updateBatchSize, Len(batchUpdates)))
          /\ (pagesFetched' # pagesFetched) =>
                /\ EarlierWavesFlushed
                /\ i >= Len(batchUpdates)
                /\ rows' = SubSeq(table, totalFetched + 1, totalFetched')
          /\ (InFlight' # {}) => pc' = "DISPATCH" ]_vars

\* C14 witness: the second wave of a page is in flight; the first wave's
\* item is in the checkpoint file and its record in the audit file.
C14_Witness ==
    /\ pc = "DISPATCH"
    /\ i >= 1
    /\ InFlight # {}
    /\ cfg.outputCsvPath
    /\ batchUpdates[1].id \in CheckpointIds
    /\ batchUpdates[1].id \notin startCheckpoint
    /\ Len(AuditRows) = 1
    /\ AuditRows[1].row[1].matchVal = batchUpdates[1].id

\* a configuration the claim calls invalid
MissingConfig ==
    \/ cfg.object = ""
    \/ cfg.sql = ""
    \/ cfg.property = "undefined"
    \/ cfg.matching_id = ""
    \/ ~cfg.hubspotClient
    \/ ~cfg.bigqueryClient
    \/ cfg.property = "string" /\ cfg.column_name = ""
    \/ cfg.matchKeyType # "id"

\* C15: with an invalid configuration the only step of the run is the throw
\* of the configuration error: no page is fetched, no update is sent, the
\* checkpoint file is neither read nor written and no audit file appears.
C15_ConfigErrorsArePreRun ==
    /\ [] (MissingConfig =>
              /\ pc \in {"INIT", "THROWN"}
              /\ pc = "THROWN" => thrown = "config"
              /\ pagesFetched = 0
              /\ updateCalls = NoCalls
              /\ processed = {}
              /\ ~csvFile.exists)
    /\ [][ MissingConfig =>
              /\ pc' = "THROWN"
              /\ UNCHANGED <<files, remote, totals, memory>> ]_vars

\* C15 witness: a call with property as a string and no column_name has
\* thrown its configuration error.
C15_Witness ==
    /\ pc = "THROWN"
    /\ thrown = "config"
    /\ cfg.property = "string"
    /\ cfg.column_name = ""
    /\ cfg.object # ""
    /\ cfg.sql # ""
    /\ cfg.matching_id # ""
    /\ cfg.matchKeyType = "id"
    /\ cfg.hubspotClient
    /\ cfg.bigqueryClient

\* C16: no step of a run takes an identifier out of the processed set, and
\* every write of the checkpoint file stores the whole set: what the file
\* held when the run started and what every earlier write stored included.
C16_ProcessedOnlyGrows ==
    [][ /\ processed \subseteq processed'
        /\ (checkpointFile' # checkpointFile) =>
              /\ checkpointFile'.kind = "array"
              /\ checkpointFile'.ids = processed
              /\ checkpointFile.ids \subseteq checkpointFile'.ids
              /\ startCheckpoint \subseteq checkpointFile'.ids ]_vars

\* C16 witness: a run that found "7" in the checkpoint file has written the
\* file with "7" and the identifier it processed.
C16_Witness ==
    /\ startCheckpoint = {<<"7">>}
    /\ pc = "WAVE"
    /\ i >= 1
    /\ CheckpointIds = Ids
    /\ processed = Ids

\* a property map with at least one property and no blank value
NonBlankProps(props) ==
    /\ DOMAIN props # {}
    /\ \A p \in DOMAIN props : ~BlankValue(props[p])

\* C17: every pending update, so every property map sent to the remote
\* update or recorded in the audit file, has a property and no blank value
\* (null, undefined or, with dropBlanks, white space only); a row with an
\* identifier that is not skipped as processed and has a non-blank mapped
\* column becomes a pending update with exactly its non-blank columns, each
\* with the value of the row.
C17_NoBlankReachesCrm ==
    /\ [] (/\ \A k \in 1..Len(batchUpdates) : NonBlankProps(batchUpdates[k].properties)
           /\ \A k \in 1..Len(wave) : NonBlankProps(wave[k].properties)
           /\ \A k \in 1..Len(AuditRows) : NonBlankProps(AuditRows[k].row[1].properties_json))
    /\ [][ (/\ pc = "MAP"
            /\ RowId(rows[rowIdx]) # <<>>
            /\ ~AlreadyProcessed(RowId(rows[rowIdx]))
            /\ ~BlankOnly(rows[rowIdx])) =>
              /\ Len(batchUpdates') = Len(batchUpdates) + 1
              /\ LET r == rows[rowIdx]
                     w == batchUpdates'[Len(batchUpdates')]
                 IN  /\ w.id = RowId(r)
                     /\ \A hsProp \in DOMAIN PropertyMap :
                           IF BlankValue(r[PropertyMap[hsProp]])
                           THEN hsProp \notin DOMAIN w.properties
                           ELSE /\ hsProp \in DOMAIN w.properties
                                /\ w.properties[hsProp] = r[PropertyMap[hsProp]] ]_vars

\* C17 witness: with dropBlanks = false the update of a row whose country is
\* a single space and whose state is undefined has been sent with the
\* country alone, the space kept.
C17_Witness ==
    /\ ~cfg.dropBlanks
    /\ cfg.apply
    /\ \E k \in 1..Len(call) :
         /\ call[k] = "returned"
         /\ DOMAIN wave[k].properties = {"country"}
         /\ wave[k].properties["country"] = Str(<<" ">>)

\* a row the claim calls without identifier: the column is absent, null or
\* white space only
NoIdentifier(r) ==
    \/ r[matching_id].t \in {"null", "undefined"}
    \/ \A k \in 1..Len(JsString(r[matching_id])) : JsString(r[matching_id])[k] \in WhiteSpace

\* C18: the loop turn of a row without identifier changes no count, no
\* pending update, no file, no remote call and not the processed set; no
\* pending update, wave item or audit record is without identifier.
C18_InvalidIdRowIsInert ==
    /\ [] (/\ \A k \in 1..Len(batchUpdates) : batchUpdates[k].id \in Ids
           /\ \A k \in 1..Len(wave) : wave[k].id \in Ids
           /\ \A k \in 1..Len(AuditRows) : AuditRows[k].row[1].matchVal \in Ids
           /\ processed \subseteq Ids)
    /\ [][ (pc = "MAP" /\ NoIdentifier(rows[rowIdx])) =>
              /\ UNCHANGED <<files, remote, totals, memory>>
              /\ UNCHANGED <<wave, call>> ]_vars

\* C18 witness: the first row of a page had a null identifier; it has been
\* passed over: fetched counts it, nothing else has changed.
C18_Witness ==
    /\ pc \in {"MAP", "WAVE"}
    /\ rowIdx = 2
    /\ rows[1][matching_id] = Null
    /\ totalFetched = Len(rows)
    /\ totalSkipped = 0
    /\ batchUpdates = <<>>
    /\ processed = startCheckpoint

\* the audit records a step adds to the audit file, in order
AppendedRows ==
    LET new == SubSeq(csvFile'.lines, Len(csvFile.lines) + 1, Len(csvFile'.lines))
        recs == SelectSeq(new, LAMBDA l : ~l.header)
    IN  [k \in 1..Len(recs) |-> recs[k].row[1]]

\* the step ends the dispatch or the dry-run recording of a wave
WaveRecorded == pc # "SAVE" /\ pc' = "SAVE"

\* C19 as stated: with an audit path, a wave that has records is written to
\* the audit file by exactly one append, in both modes.
C19_OneAppendPerWave ==
    [][ (WaveRecorded /\ cfg.outputCsvPath /\ (cfg.apply => waveCsvRows # <<>>)) =>
          /\ csvFile'.appends = csvFile.appends + 1
          /\ AppendedRows = (IF cfg.apply THEN waveCsvRows ELSE DryRunRows(wave')) ]_vars

\* C19 amended: the audit file changes only when a wave is recorded, with
\* an audit path.  In apply mode a wave that has records makes one append,
\* of all its records and no other; in dry-run mode a wave makes one append
\* per item, of that item's record, before its checkpoint write.
C19_AppendsPerWave ==
    [][ /\ (csvFile' # csvFile) => (WaveRecorded /\ cfg.outputCsvPath)
        /\ (WaveRecorded /\ cfg.outputCsvPath) =>
              IF cfg.apply
              THEN /\ csvFile'.appends = csvFile.appends + (IF waveCsvRows # <<>> THEN 1 ELSE 0)
                   /\ AppendedRows = waveCsvRows
                   /\ Len(waveCsvRows) = Cardinality({k \in 1..Len(call) : call[k] # "none"})
              ELSE /\ csvFile'.appends = csvFile.appends + Len(wave')
                   /\ AppendedRows = DryRunRows(wave')
                   /\ checkpointFile' = checkpointFile ]_vars

\* C19 witness: a dry run with an audit path has recorded a wave of two
\* items by two appends.
C19_Witness ==
    /\ ~cfg.apply
    /\ cfg.outputCsvPath
    /\ pc = "SAVE"
    /\ Len(wave) = 2
    /\ csvFile.appends = 2
    /\ Len(AuditRows) = 2

\* the audit records of the audit file with one status
AuditCount(status) == CountOf(AuditRows, LAMBDA l : l.row[1].status = status)

\* C20: with an audit path, whenever no wave is being dispatched the audit
\* file holds one record per attempted item and no other: in a dry run all
\* DRY_RUN, in apply mode one UPDATED per update that returned and one ERROR,
\* with the error text, per update that threw; while a wave is dispatched
\* its records are those of the updates that have ended.
C20_OneAuditRowPerAttempt ==
    cfg.outputCsvPath =>
      /\ pc # "DISPATCH" => Len(AuditRows) = totalAttempted
      /\ pc = "DISPATCH" =>
            Len(AuditRows) + Len(waveCsvRows) + Cardinality(InFlight) = totalAttempted
      /\ ~cfg.apply => AuditCount("DRY_RUN") = Len(AuditRows)
      /\ cfg.apply =>
            /\ AuditCount("UPDATED") + AuditCount("ERROR") = Len(AuditRows)
            /\ pc # "DISPATCH" =>
                  /\ AuditCount("UPDATED") = totalUpdated
                  /\ AuditCount("ERROR") = Len(errors)
                  /\ \A id \in Ids :
                        CountOf(AuditRows, LAMBDA l : l.row[1].matchVal = id) = updateCalls[id]
      /\ \A k \in 1..Len(AuditRows) :
            LET rec == AuditRows[k].row[1]
            IN  (rec.error # "") <=> (rec.status = "ERROR")
      /\ (pc = "DONE" /\ (cfg.apply => cfg.updateConcurrency >= 1)) =>
            InvalidRows + totalSkipped + Len(AuditRows) = Len(table)

\* C20 witness: an apply run with an audit path has returned; of its two
\* rows one was skipped and one was sent and threw: the audit file holds
\* the ERROR record and nothing else.
C20_Witness ==
    /\ cfg.apply
    /\ cfg.outputCsvPath
    /\ pc = "DONE"
    /\ Len(table) = 2
    /\ totalSkipped = 1
    /\ totalAttempted = 1
    /\ Len(AuditRows) = 1
    /\ AuditRows[1].row[1].status = "ERROR"
    /\ AuditRows[1].row[1].error = "update failed"

\* the lines that are header lines
HeaderLines(lines) == {k \in 1..Len(lines) : lines[k].header}

\* C21: an audit file that exists holds exactly one header line, its first
\* line, and a file that does not exist holds nothing; the append that
\* creates the file writes the header, every later append, in the same run or
\* in a rerun, adds data rows only, and no step changes or removes a line
\* already in the file.
C21_HeaderOnceAndFirst ==
    /\ [] (IF csvFile.exists
             THEN HeaderLines(csvFile.lines) = {1}
             ELSE csvFile.lines = <<>> /\ csvFile.appends = 0)
    /\ [][ /\ Len(csvFile'.lines) >= Len(csvFile.lines)
           /\ SubSeq(csvFile'.lines, 1, Len(csvFile.lines)) = csvFile.lines
           /\ csvFile.exists => csvFile'.exists
           /\ (csvFile'.appends # csvFile.appends) =>
                 /\ csvFile'.exists
                 /\ Len(csvFile'.lines) > Len(csvFile.lines)
                 /\ HeaderLines(csvFile'.lines) \ HeaderLines(csvFile.lines)
                      = (IF csvFile.exists THEN {} ELSE {1}) ]_vars

\* a rerun has appended data rows to the audit file that the first run
\* created, after appends of the first run
C21_Witness ==
    /\ run = 2
    /\ csvFile.appends >= 3
    /\ Len(AuditRows) >= 3
    /\ totalAttempted >= 1

\* the identifiers that a dry run has previewed: those of the DRY_RUN records
\* in the audit file
Previewed ==
    {AuditRows[k].row[1].matchVal :
        k \in {j \in 1..Len(AuditRows) : AuditRows[j].row[1].status = "DRY_RUN"}}

\* C28: when a dry run returns, every identifier it previewed is in the
\* checkpoint file; in an apply run with skipAlreadyProcessed = true on that
\* checkpoint file no remote update is issued for a previewed identifier, it
\* never becomes a pending update, and each row that carries it adds one to
\* the skipped count and changes nothing else.
C28_DryRunConsumesCheckpoint ==
    /\ [] ((~cfg.apply /\ pc = "DONE") => Previewed \subseteq CheckpointIds)
    /\ [] ((cfg.apply /\ cfg.skipAlreadyProcessed) =>
             \A id \in Previewed :
               /\ updateCalls[id] = 0
               /\ id \notin WaveIds(batchUpdates)
               /\ id \notin applied)
    /\ [][ (cfg.apply /\ cfg.skipAlreadyProcessed /\ pc = "MAP"
              /\ RowId(rows[rowIdx]) \in Previewed) =>
             /\ totalSkipped' = totalSkipped + 1
             /\ UNCHANGED <<processed, batchUpdates, files, errors, remote>>
             /\ UNCHANGED <<totalFetched, totalAttempted, totalUpdated>> ]_vars

\* an apply run that followed a dry run has returned: the dry run previewed
\* two identifiers, the apply run skipped both rows and sent nothing
C28_Witness ==
    /\ run = 2
    /\ cfg.apply
    /\ cfg.skipAlreadyProcessed
    /\ pc = "DONE"
    /\ Previewed = Ids
    /\ totalSkipped = 2
    /\ totalAttempted = 0
    /\ updateCalls = NoCalls

\* the identifiers of the rows that the row loop of this run has passed
MappedIds ==
    LET left == IF pc = "MAP" THEN Len(rows) - rowIdx + 1 ELSE 0
    IN  {RowId(table[k]) : k \in 1..(totalFetched - left)} \ {<<>>}

\* C22: a run that finds no checkpoint file, or one that is unreadable, not
\* JSON or not an array, does not throw on it: its first step either starts
\* the paging with an empty processed set or is the rejected query; the
\* processed set only ever holds identifiers of rows this run has passed, so
\* a row is skipped as already processed only after an earlier row of the
\* same run with its identifier: the first row with an identifier is
\* discarded as blank-only or becomes a pending update.
C22_CheckpointLoadNeverFatal ==
    /\ [] (thrown \in {"none", "query", "fetch"})
    /\ [] (processed \subseteq MappedIds)
    /\ [][ (pc = "INIT" /\ pc' # "INIT" /\ checkpointFile.kind # "array") =>
             \/ pc' = "PAGING" /\ processed' = {} /\ thrown' = "none"
             \/ pc' = "THROWN" /\ thrown' = "query" ]_vars
    /\ [][ (pc = "MAP" /\ RowId(rows[rowIdx]) \notin MappedIds) =>
             \/ RowId(rows[rowIdx]) = <<>>
             \/ BlankOnly(rows[rowIdx])
             \/ batchUpdates' = Append(batchUpdates,
                   [id |-> RowId(rows[rowIdx]), properties |-> RowProps(rows[rowIdx])]) ]_vars

\* the file at the checkpoint path is JSON but no array and mentions "7";
\* the run has started, has not skipped the row that carries "7" and has its
\* update in flight
C22_Witness ==
    /\ checkpointFile = [kind |-> "notarray", ids |-> {<<"7">>}]
    /\ pc = "DISPATCH"
    /\ totalSkipped = 0
    /\ \E k \in InFlight : wave[k].id = <<"7">>

\* the items of the wave that a worker has taken
Taken == {k \in 1..Len(call) : call[k] # "none"}

\* the items that the step passes to the remote update
NewlyTaken ==
    {k \in 1..Len(call') :
        call'[k] = "inflight" /\ (pc = "WAVE" \/ call[k] = "none")}

\* C23: with updateConcurrency >= 1, while a wave is dispatched the items
\* taken are the first items of the wave, as many as the shared index says
\* and never more in flight than workers; an item goes from not taken to in
\* flight to returned or thrown and never back; each step makes one remote
\* call per item it takes and no other; and the dispatch ends only when every
\* item of the wave has returned or thrown.
C23_EachItemDispatchedOnce ==
    /\ [] ((cfg.updateConcurrency >= 1 /\ pc = "DISPATCH") =>
             /\ Len(call) = Len(wave)
             /\ Taken = 1..Min(idx, Len(wave))
             /\ Cardinality(InFlight) <= cfg.updateConcurrency)
    /\ [][ (cfg.updateConcurrency >= 1 /\ pc' = "DISPATCH") =>
             /\ pc = "DISPATCH" =>
                   \A k \in 1..Len(call) :
                     /\ wave'[k] = wave[k]
                     /\ call[k] = "inflight" => call'[k] \in {"inflight", "returned", "threw"}
                     /\ call[k] \in {"returned", "threw"} => call'[k] = call[k]
             /\ \A id \in Ids :
                   updateCalls'[id] =
                     updateCalls[id] + Cardinality({k \in NewlyTaken : wave'[k].id = id}) ]_vars
    /\ [][ (cfg.updateConcurrency >= 1 /\ pc = "DISPATCH" /\ pc' # "DISPATCH") =>
             /\ WaveCompleted
             /\ Taken = 1..Len(wave)
             /\ UNCHANGED <<wave, call, updateCalls>> ]_vars

\* one worker and a wave of two items: the first update has thrown and the
\* worker has taken the second item
C23_Witness ==
    /\ cfg.updateConcurrency = 1
    /\ pc = "DISPATCH"
    /\ Len(wave) = 2
    /\ call = <<"threw", "inflight">>
    /\ idx = 2

\* C24: with updateBatchSize >= 1 and updateConcurrency >= 1, a run in which
\* neither the query job nor a page fetch is rejected, and in which every
\* remote update ends, eventually returns its summary.
C24_Termination ==
    [](thrown = "none") => <>(pc = "DONE")

\* a run has returned after two pages of one row each, each row updated in
\* its own wave
C24_Witness ==
    /\ pc = "DONE"
    /\ cfg.apply
    /\ pagesFetched >= 2
    /\ totalAttempted = 2
    /\ totalUpdated + Len(errors) = 2

\* the identifiers of the records in the audit file
AuditIds == {AuditRows[k].row[1].matchVal : k \in 1..Len(AuditRows)}

\* C25: once a page fetch has been rejected the run is over with the error
\* thrown and never returns a summary; the checkpoint file then holds the
\* identifier of every item of the waves that ended before the fetch (every
\* identifier passed to the remote update, every identifier with an audit
\* record), and with an audit path the audit file holds one record per
\* attempted item, one UPDATED record per update that returned and one ERROR
\* record per update that threw.
C25_FetchFailureKeepsFiles ==
    (thrown = "fetch") =>
        /\ pc = "THROWN"
        /\ InFlight = {}
        /\ \A id \in Ids : updateCalls[id] > 0 => id \in CheckpointIds
        /\ applied \subseteq CheckpointIds
        /\ totalAttempted > 0 => checkpointFile.kind = "array"
        /\ cfg.outputCsvPath =>
              /\ AuditIds \subseteq CheckpointIds
              /\ Len(AuditRows) = totalAttempted
              /\ cfg.apply => /\ AuditCount("UPDATED") = totalUpdated
                              /\ AuditCount("ERROR") = Len(errors)

\* the fetch of the second page was rejected after the wave of the first
\* page had ended with its update returned: the identifier is in the
\* checkpoint file and its record in the audit file
C25_Witness ==
    /\ thrown = "fetch"
    /\ cfg.apply
    /\ cfg.outputCsvPath
    /\ pagesFetched = 1
    /\ totalFetched < Len(table)
    /\ totalUpdated = 1
    /\ Cardinality(CheckpointIds) = 1
    /\ applied = CheckpointIds
    /\ Len(AuditRows) = 1

\* the identifiers this run has attempted: passed to the remote update, or
\* recorded by the dry run whose checkpoint write is next
Attempted ==
    {id \in Ids : updateCalls[id] > 0}
    \cup (IF ~cfg.apply /\ pc = "SAVE" THEN WaveIds(wave) ELSE {})

\* the identifiers of the items of the wave that have been attempted and
\* have ended
WaveEndedIds ==
    IF cfg.apply
    THEN {wave[k].id : k \in {j \in 1..Len(call) : call[j] \in {"returned", "threw"}}}
    ELSE WaveIds(wave)

\* C29 as stated: with an audit path, in every state every identifier that
\* this run has attempted and that is in the checkpoint file has a record in
\* the audit file.
C29_AttemptedInCheckpointHasAuditRow ==
    cfg.outputCsvPath =>
        \A id \in Attempted : id \in CheckpointIds => id \in AuditIds

\* C29 amended: the checkpoint file is written only by the save that follows
\* a wave, and with an audit path, at each such write the audit file already
\* holds one record per item attempted so far in the run, those of the
\* wave's items included, and the write does not touch the audit file; so an
\* identifier that a wave puts into the checkpoint file has its record.
C29_AuditBeforeCheckpoint ==
    [][ /\ checkpointFile' # checkpointFile => pc = "SAVE"
        /\ (pc = "SAVE" /\ pc' # "SAVE") =>
              /\ checkpointFile'.kind = "array"
              /\ WaveEndedIds \subseteq checkpointFile'.ids
              /\ cfg.outputCsvPath =>
                    /\ Len(AuditRows) = totalAttempted
                    /\ WaveEndedIds \subseteq AuditIds
                    /\ Attempted \subseteq AuditIds
                    /\ csvFile' = csvFile ]_vars

\* an apply run with an audit path has saved the checkpoint after a wave:
\* the identifier the wave added to the file has its audit record
C29_Witness ==
    /\ cfg.outputCsvPath
    /\ cfg.apply
    /\ pc = "WAVE"
    /\ i >= 1
    /\ totalAttempted >= 1
    /\ \E id \in CheckpointIds \ startCheckpoint : id \in AuditIds /\ updateCalls[id] > 0

\* C30: when a run with updateConcurrency >= 1 returns, every row of the
\* result has been fetched and is counted once: fetched = rows without a
\* valid identifier + skipped + attempted; in apply mode attempted = updated
\* + entries of the error list, in a dry run nothing is updated and the
\* error list is empty.
C30_SummaryAccounting ==
    (pc = "DONE" /\ cfg.updateConcurrency >= 1) =>
        /\ totalFetched = Len(table)
        /\ totalFetched = InvalidRows + totalSkipped + totalAttempted
        /\ IF cfg.apply
           THEN totalAttempted = totalUpdated + Len(errors)
           ELSE totalUpdated = 0 /\ errors = <<>>

\* an apply run has returned with one row without identifier or skipped,
\* and one row attempted whose update threw
C30_Witness ==
    /\ pc = "DONE"
    /\ cfg.apply
    /\ cfg.updateConcurrency >= 1
    /\ totalFetched = 2
    /\ InvalidRows + totalSkipped = 1
    /\ totalAttempted = 1
    /\ totalUpdated = 0
    /\ Len(errors) = 1

\* C26: without --apply, whatever the command, the .env and the rows of the
\* tables, no write call to HubSpot is made or awaited: no merge request, no
\* batch createOrUpdate and no batch archive is ever sent, and no action
\* enters its loop over batches or pairs.
C26_NoWriteWithoutApply ==
    ~APPLY =>
        /\ sent = NoWrites
        /\ failed = NoWrites
        /\ inflight = <<>>
        /\ queue = <<>>
        /\ cliPc \notin {"SEND", "WAIT", "SLEEP"}

\* "all" without --apply has ended with "Done.": its last action, the
\* delete, had prepared identifiers to archive, and nothing was sent
C26_Witness ==
    /\ ~APPLY
    /\ cmd = "all"
    /\ cliPc = "EXIT0"
    /\ plan = <<>>
    /\ Len(prepared) >= 2
    /\ sent = NoWrites

\* C27: "all" with --apply sends its write calls one at a time and in the
\* order merge, update, archive: a merge request is sent only while no batch
\* has been sent, an update batch only when every merge pair has been sent
\* and has ended and no archive batch has been sent, an archive batch only
\* when every merge pair and every update batch has been sent and has
\* ended; a call that throws is followed by the pause and the rest of the
\* loop, so that at "Done." every pair and every batch has been sent; the
\* process fails only while loading, on a table that is not named or on a
\* rejected query.
C27_AllRunsMergeUpdateDelete ==
    /\ [] ((cmd = "all" /\ APPLY) =>
             /\ Len(inflight) <= 1
             /\ \A k \in WriteKinds : failed[k] <= sent[k] /\ sent[k] <= due[k]
             /\ sent["update"] > 0 => sent["merge"] = due["merge"]
             /\ sent["archive"] > 0 =>
                   sent["merge"] = due["merge"] /\ sent["update"] = due["update"]
             /\ cliPc = "EXIT0" => plan = <<>> /\ sent = due)
    /\ [][ (cmd = "all" /\ APPLY) =>
             /\ sent' # sent =>
                   /\ inflight = <<>> /\ Len(inflight') = 1
                   /\ inflight'[1].kind = "merge" =>
                         sent["update"] = 0 /\ sent["archive"] = 0
                   /\ inflight'[1].kind = "update" =>
                         sent["archive"] = 0 /\ Head(plan) = "update"
                   /\ inflight'[1].kind = "archive" => Head(plan) = "delete"
             /\ failed' # failed =>
                   /\ cliPc' = "SLEEP"
                   /\ UNCHANGED <<plan, queue, sent, due>>
             /\ (cliPc' = "EXIT1" /\ cliPc # "EXIT1") =>
                   cliPc \in {"LOAD", "MAIN", "QUERY"} ]_vars

\* "all" with --apply has ended with "Done." although a merge request, an
\* update batch and an archive batch threw: two merge pairs, two update
\* batches and two archive batches were due and all were sent
C27_Witness ==
    /\ cmd = "all"
    /\ APPLY
    /\ cliPc = "EXIT0"
    /\ \A k \in WriteKinds : due[k] >= 2 /\ sent[k] = due[k] /\ failed[k] >= 1

====
